---- MODULE Spec2Model ----
(***************************************************************************)
(* Connectivity and scheduling layer of the Unraid Homey app:              *)
(*   - PollManager (lib/utils/poll-manager.ts): named recurring jobs with  *)
(*     exponential backoff and a retry ceiling;                            *)
(*   - discoverSslMode / clearSslDiscoveryCache (lib/api/client.ts);       *)
(*   - executeQuery (lib/api/client.ts).                                   *)
(* Strings are modelled as sequences of tokens, so that trimming,          *)
(* startsWith/endsWith, URL formatting and the parseUrl regular expression *)
(* are computed rather than assumed.                                       *)
(***************************************************************************)
EXTENDS Integers, Sequences, FiniteSets, Bags, TLC

\* ------------------------------------------------------------------ bounds
\* Largest number of work invocations in flight at once (all jobs together).
MaxInFlight == 2
\* consecutiveErrors is followed up to maxRetries + MaxOvershoot.
MaxOvershoot == 2
\* Largest number of replaced or removed PollState objects that pending
\* invocations still hold.
MaxStale == 1

\* ------------------------------------------------------------------ state
VARIABLES
  polls,      \* Map<string, PollState>
  configs,    \* Map<string, Required<PollConfig>>
  callbacks,  \* Map<string, PollCallback>
  timers,     \* live setInterval handles: handle -> period in ms
  inflight,   \* per job id: executeCallback invocations awaiting callback()
              \* that hold the PollState now in `polls`
  stale       \* bag of PollState objects no longer in `polls` that pending
              \* invocations still hold, with what those invocations captured

pollVars == <<polls, configs, callbacks, timers, inflight, stale>>

VARIABLES
  sslDiscoveryCache,  \* Map<string, SslDiscoveryResult>
  dcall               \* the latest discoverSslMode call: in progress, or
                      \* "done" with the result it resolved to

discVars == <<sslDiscoveryCache, dcall>>

VARIABLES
  ecall               \* the latest executeQuery call: in progress, or "done"
                      \* with what it returned or threw

execVars == <<ecall>>

\* What the operations of one component leave alone.
notPollVars == <<discVars, execVars>>

notDiscVars == <<pollVars, execVars>>

notExecVars == <<pollVars>>

\* ----------------------------------------------------------------- helpers
Put(f, k, v) == [x \in (DOMAIN f) \cup {k} |-> IF x = k THEN v ELSE f[x]]

Del(f, k) == [x \in (DOMAIN f) \ {k} |-> f[x]]

Range(f) == {f[x] : x \in DOMAIN f}

MinOf(S) == CHOOSE x \in S : \A y \in S : x <= y

Min(a, b) == IF a <= b THEN a ELSE b

Max(a, b) == IF a >= b THEN a ELSE b

RECURSIVE Pow(_, _)
Pow(b, e) == IF e = 0 THEN 1 ELSE b * Pow(b, e - 1)

\* ============================================================ PollManager
\* Job ids used by the callers of the model.
Ids == {"a", "b"}

\* An optional PollConfig field that the caller left out.
Absent == -1

\* null (a PollState without timer handle)
Null == << >>

\* What a registered work callback does when invoked: "flaky" may resolve or
\* reject, "failing" always rejects.
WorkKinds == {"flaky", "failing"}

\* PollConfig values passed to register().
CfgTestDefault ==
  [baseInterval |-> 1000, minInterval |-> Absent, maxInterval |-> Absent,
   maxRetries |-> Absent, backoffMultiplier |-> Absent]

CfgBackoff ==
  [baseInterval |-> 1000, minInterval |-> Absent, maxInterval |-> 30000,
   maxRetries |-> 8, backoffMultiplier |-> 2]

CfgRetry3 ==
  [baseInterval |-> 1000, minInterval |-> Absent, maxInterval |-> Absent,
   maxRetries |-> 3, backoffMultiplier |-> Absent]

CfgSystem ==
  [baseInterval |-> 10000, minInterval |-> 30000, maxInterval |-> 30000,
   maxRetries |-> 5, backoffMultiplier |-> Absent]

CfgStorage ==
  [baseInterval |-> 900000, minInterval |-> 300000, maxInterval |-> 600000,
   maxRetries |-> 3, backoffMultiplier |-> Absent]

\* `config.x ?? d`
OrDefault(v, d) == IF v = Absent THEN d ELSE v

\* register(): fullConfig
fullConfig(config) ==
  [minInterval |-> OrDefault(config.minInterval, 1000),
   maxInterval |-> OrDefault(config.maxInterval, 30000),
   baseInterval |-> config.baseInterval,
   maxRetries |-> OrDefault(config.maxRetries, 5),
   backoffMultiplier |-> OrDefault(config.backoffMultiplier, 2)]

\* The PollState object created by register().
NewPollState(fc) ==
  [interval |-> Null, currentInterval |-> fc.baseInterval,
   consecutiveErrors |-> 0, isRunning |-> FALSE,
   lastSuccess |-> FALSE, lastError |-> FALSE]

\* Handles returned by homey.setInterval for the callback of job id.
HandlesOf(id) == {<<id, k>> : k \in 1 .. 3}

\* homey.setInterval: a handle different from every live one and from the
\* one the caller still holds.
NewHandle(t, id, held) ==
  LET free == {k \in 1 .. 3 : <<id, k>> \notin DOMAIN t /\ <<id, k>> # held}
  IN <<id, MinOf(free)>>

\* A clearInterval that drops every timer.
clearIntervalAll(t, handle) == << >>

\* homey.clearInterval(handle)
clearInterval(t, handle) == Del(t, handle)

\* A stop that clears the timer and leaves isRunning set.
stopKeepsRunning(h, id) ==
  IF id \notin DOMAIN h.polls THEN h
  ELSE LET st == h.polls[id]
       IN [polls |-> [h.polls EXCEPT ![id].interval = Null],
           timers |-> IF st.interval # Null THEN clearInterval(h.timers, st.interval)
                      ELSE h.timers]

\* A stop that also resets the backoff state.
stopResetting(h, id) ==
  IF id \notin DOMAIN h.polls THEN h
  ELSE LET st == h.polls[id]
       IN [polls |-> [h.polls EXCEPT ![id].interval = Null, ![id].isRunning = FALSE,
                                     ![id].consecutiveErrors = 0],
           timers |-> IF st.interval # Null THEN clearInterval(h.timers, st.interval)
                      ELSE h.timers]

\* stop(id), on h = [polls, timers]
stop(h, id) ==
  IF id \notin DOMAIN h.polls THEN h
  ELSE LET st == h.polls[id]
       IN [polls |-> [h.polls EXCEPT ![id].interval = Null, ![id].isRunning = FALSE],
           timers |-> IF st.interval # Null THEN clearInterval(h.timers, st.interval)
                      ELSE h.timers]

\* A scheduleNext that arms a timer without clearing the previous one.
scheduleNextNoClear(h, id) ==
  IF id \notin DOMAIN h.polls \/ ~h.polls[id].isRunning THEN h
  ELSE LET st == h.polls[id]
           nh == NewHandle(h.timers, id, Null)
       IN [polls |-> [h.polls EXCEPT ![id].interval = nh],
           timers |-> Put(h.timers, nh, st.currentInterval)]

\* scheduleNext(id), on h = [polls, timers]
scheduleNext(h, id) ==
  IF id \notin DOMAIN h.polls \/ ~h.polls[id].isRunning THEN h
  ELSE LET st == h.polls[id]
           t1 == IF st.interval # Null THEN clearInterval(h.timers, st.interval)
                 ELSE h.timers
           nh == NewHandle(t1, id, Null)
       IN [polls |-> [h.polls EXCEPT ![id].interval = nh],
           timers |-> Put(t1, nh, st.currentInterval)]

\* Backoff that grows linearly with the error count.
BackoffIntervalLinear(config, errors) ==
  Max(Min(config.baseInterval * config.backoffMultiplier * errors,
          config.maxInterval),
      config.minInterval)

\* The backoff interval computed in the catch block of executeCallback.
BackoffInterval(config, errors) ==
  Max(Min(config.baseInterval * Pow(config.backoffMultiplier, errors),
          config.maxInterval),
      config.minInterval)

\* A success path that forgets to reset the error count.
OnSuccessKeepErrors(st, config) ==
  [st EXCEPT !.currentInterval = config.baseInterval,
             !.lastSuccess = TRUE]

\* executeCallback: the success path applied to the PollState it holds.
OnSuccess(st, config) ==
  [st EXCEPT !.consecutiveErrors = 0,
             !.currentInterval = config.baseInterval,
             !.lastSuccess = TRUE]

\* executeCallback: the bookkeeping of the catch block.
OnFailure(st, config) ==
  [st EXCEPT !.consecutiveErrors = @ + 1,
             !.lastError = TRUE,
             !.currentInterval = BackoffInterval(config, st.consecutiveErrors + 1)]

\* A retry test that never gives up.
ExhaustedNever(st, config) == FALSE

\* executeCallback: `state.consecutiveErrors >= config.maxRetries`
Exhausted(st, config) == st.consecutiveErrors >= config.maxRetries

Known(id) == id \in DOMAIN polls /\ id \in DOMAIN configs /\ id \in DOMAIN callbacks

InFlightTotal ==
  LET RECURSIVE Sum(_)
      Sum(S) == IF S = {} THEN 0
                ELSE LET x == CHOOSE y \in S : TRUE IN inflight[x] + Sum(S \ {x})
      RECURSIVE SumB(_)
      SumB(S) == IF S = {} THEN 0
                 ELSE LET x == CHOOSE y \in S : TRUE
                      IN x.pending * CopiesIn(x, stale) + SumB(S \ {x})
  IN Sum(DOMAIN inflight) + SumB(BagToSet(stale))

CanInvoke == InFlightTotal < MaxInFlight

Heap == [polls |-> polls, timers |-> timers]

\* The PollState of id leaves `polls` (replaced or deleted): invocations that
\* hold it keep it alive.
Detach(id) ==
  IF id \in DOMAIN polls /\ inflight[id] > 0
  THEN stale (+) SetToBag({[id |-> id, state |-> stop(Heap, id).polls[id],
                             config |-> configs[id], callback |-> callbacks[id],
                             pending |-> inflight[id]]})
  ELSE stale

CanDetach(id) ==
  (id \in DOMAIN polls /\ inflight[id] > 0) => BagCardinality(stale) < MaxStale

\* A register that replaces the job without stopping the old one.
RegisterNoStop(id, callback, config) ==
  /\ UNCHANGED notPollVars
  /\ LET fc == fullConfig(config)
     IN /\ CanDetach(id)
        /\ callbacks' = Put(callbacks, id, callback)
        /\ configs' = Put(configs, id, fc)
        /\ polls' = Put(polls, id, NewPollState(fc))
        /\ timers' = timers
        /\ stale' = Detach(id)
        /\ inflight' = Put(inflight, id, 0)

\* register(id, callback, config)
Register(id, callback, config) ==
  /\ UNCHANGED notPollVars
  /\ LET h1 == stop(Heap, id)
         fc == fullConfig(config)
     IN /\ CanDetach(id)
        /\ callbacks' = Put(callbacks, id, callback)
        /\ configs' = Put(configs, id, fc)
        /\ polls' = Put(h1.polls, id, NewPollState(fc))
        /\ timers' = h1.timers
        /\ stale' = Detach(id)
        /\ inflight' = Put(inflight, id, 0)

\* A start that starts over when the job is running already.
StartAgain(id) ==
  /\ UNCHANGED notPollVars
  /\ IF ~Known(id)
     THEN UNCHANGED pollVars
     ELSE /\ CanInvoke
          /\ LET p1 == [polls EXCEPT ![id].isRunning = TRUE,
                                     ![id].currentInterval = configs[id].baseInterval,
                                     ![id].consecutiveErrors = 0]
                 h2 == scheduleNext([polls |-> p1, timers |-> timers], id)
             IN /\ inflight' = [inflight EXCEPT ![id] = @ + 1]
                /\ polls' = h2.polls
                /\ timers' = h2.timers
                /\ UNCHANGED <<configs, callbacks, stale>>

\* A start that keeps the error count of the last run.
StartKeepsErrors(id) ==
  /\ UNCHANGED notPollVars
  /\ IF ~Known(id) \/ polls[id].isRunning
     THEN UNCHANGED pollVars
     ELSE /\ CanInvoke
          /\ LET p1 == [polls EXCEPT ![id].isRunning = TRUE,
                                     ![id].currentInterval = configs[id].baseInterval]
                 h2 == scheduleNext([polls |-> p1, timers |-> timers], id)
             IN /\ inflight' = [inflight EXCEPT ![id] = @ + 1]
                /\ polls' = h2.polls
                /\ timers' = h2.timers
                /\ UNCHANGED <<configs, callbacks, stale>>

\* A start that keeps the interval the last failure left.
StartKeepsInterval(id) ==
  /\ UNCHANGED notPollVars
  /\ IF ~Known(id) \/ polls[id].isRunning
     THEN UNCHANGED pollVars
     ELSE /\ CanInvoke
          /\ LET p1 == [polls EXCEPT ![id].isRunning = TRUE,
                                     ![id].consecutiveErrors = 0]
                 h2 == scheduleNext([polls |-> p1, timers |-> timers], id)
             IN /\ inflight' = [inflight EXCEPT ![id] = @ + 1]
                /\ polls' = h2.polls
                /\ timers' = h2.timers
                /\ UNCHANGED <<configs, callbacks, stale>>

\* start(id)
Start(id) ==
  /\ UNCHANGED notPollVars
  /\ IF ~Known(id) \/ polls[id].isRunning
     THEN UNCHANGED pollVars
     ELSE /\ CanInvoke
          /\ LET p1 == [polls EXCEPT ![id].isRunning = TRUE,
                                     ![id].currentInterval = configs[id].baseInterval,
                                     ![id].consecutiveErrors = 0]
                 h2 == scheduleNext([polls |-> p1, timers |-> timers], id)
             IN /\ inflight' = [inflight EXCEPT ![id] = @ + 1]
                /\ polls' = h2.polls
                /\ timers' = h2.timers
                /\ UNCHANGED <<configs, callbacks, stale>>

\* stop(id) called by the owner of the manager
Stop(id) ==
  /\ UNCHANGED notPollVars
  /\ LET h1 == stop(Heap, id)
     IN /\ polls' = h1.polls
        /\ timers' = h1.timers
        /\ UNCHANGED <<configs, callbacks, inflight, stale>>

\* An unregister that forgets the job without stopping it.
UnregisterNoStop(id) ==
  /\ UNCHANGED notPollVars
  /\ CanDetach(id)
  /\ polls' = Del(polls, id)
  /\ callbacks' = Del(callbacks, id)
  /\ configs' = Del(configs, id)
  /\ timers' = timers
  /\ stale' = Detach(id)
  /\ inflight' = Del(inflight, id)

\* unregister(id)
Unregister(id) ==
  /\ UNCHANGED notPollVars
  /\ LET h1 == stop(Heap, id)
     IN /\ CanDetach(id)
        /\ polls' = Del(h1.polls, id)
        /\ callbacks' = Del(callbacks, id)
        /\ configs' = Del(configs, id)
        /\ timers' = h1.timers
        /\ stale' = Detach(id)
        /\ inflight' = Del(inflight, id)

\* A forceRun that also puts the job on its timer.
ForceRunArms(id) ==
  /\ UNCHANGED notPollVars
  /\ IF ~Known(id) THEN UNCHANGED pollVars
     ELSE /\ CanInvoke
          /\ LET p1 == [polls EXCEPT ![id].isRunning = TRUE]
                 h2 == scheduleNext([polls |-> p1, timers |-> timers], id)
             IN /\ inflight' = [inflight EXCEPT ![id] = @ + 1]
                /\ polls' = h2.polls
                /\ timers' = h2.timers
                /\ UNCHANGED <<configs, callbacks, stale>>

\* forceRun(id): executeCallback(id) up to `await callback()`
ForceRun(id) ==
  /\ UNCHANGED notPollVars
  /\ IF ~Known(id) THEN UNCHANGED pollVars
     ELSE /\ CanInvoke
          /\ inflight' = [inflight EXCEPT ![id] = @ + 1]
          /\ UNCHANGED <<polls, configs, callbacks, timers, stale>>

\* The setInterval callback of handle t fires: executeCallback(id) up to
\* `await callback()`.
Tick(t) ==
  /\ UNCHANGED notPollVars
  /\ t \in DOMAIN timers
  /\ IF ~Known(t[1]) THEN UNCHANGED pollVars
     ELSE /\ CanInvoke
          /\ inflight' = [inflight EXCEPT ![t[1]] = @ + 1]
          /\ UNCHANGED <<polls, configs, callbacks, timers, stale>>

\* An executeCallback that leaves the armed timer as it is.
CompleteNoRearm(id, st, config, ok, cur) ==
  LET st1 == IF ok THEN OnSuccess(st, config) ELSE OnFailure(st, config)
      h1 == [polls |-> IF cur THEN [polls EXCEPT ![id] = st1] ELSE polls,
             timers |-> timers]
      h2 == IF ~ok /\ Exhausted(st1, config) THEN stop(h1, id) ELSE h1
  IN [state |-> st1, heap |-> h2, settled |-> "resolved"]

\* An executeCallback whose catch block rethrows after the bookkeeping.
CompleteRethrow(id, st, config, ok, cur) ==
  LET st1 == IF ok THEN OnSuccess(st, config) ELSE OnFailure(st, config)
      h1 == [polls |-> IF cur THEN [polls EXCEPT ![id] = st1] ELSE polls,
             timers |-> timers]
      h2 == IF ~ok /\ Exhausted(st1, config) THEN stop(h1, id)
            ELSE IF ok /\ st1.isRunning THEN scheduleNext(h1, id)
            ELSE h1
  IN [state |-> st1, heap |-> h2, settled |-> IF ok THEN "resolved" ELSE "rejected"]

\* executeCallback after `await callback()`, for an invocation that holds
\* PollState st with config: the new st, the new h = [polls, timers] and how
\* the promise of executeCallback settles (the catch block takes every
\* rejection of callback() and throws nothing).
\* `cur` tells whether st is the object now in polls[id].
Complete(id, st, config, ok, cur) ==
  LET st1 == IF ok THEN OnSuccess(st, config) ELSE OnFailure(st, config)
      h1 == [polls |-> IF cur THEN [polls EXCEPT ![id] = st1] ELSE polls,
             timers |-> timers]
      h2 == IF ~ok /\ Exhausted(st1, config) THEN stop(h1, id)
            ELSE IF st1.isRunning THEN scheduleNext(h1, id)
            ELSE h1
  IN [state |-> st1, heap |-> h2, settled |-> "resolved"]

\* callback() of an invocation holding the current PollState of id resolved.
WorkSucceeds(id) ==
  /\ UNCHANGED notPollVars
  /\ id \in DOMAIN inflight /\ inflight[id] > 0
  /\ callbacks[id] # "failing"
  /\ LET c == Complete(id, polls[id], configs[id], TRUE, TRUE)
     IN /\ polls' = c.heap.polls
        /\ timers' = c.heap.timers
        /\ inflight' = [inflight EXCEPT ![id] = @ - 1]
        /\ UNCHANGED <<configs, callbacks, stale>>

\* callback() of an invocation holding the current PollState of id rejected.
WorkFails(id) ==
  /\ UNCHANGED notPollVars
  /\ id \in DOMAIN inflight /\ inflight[id] > 0
  /\ polls[id].consecutiveErrors < configs[id].maxRetries + MaxOvershoot
  /\ LET c == Complete(id, polls[id], configs[id], FALSE, TRUE)
     IN /\ polls' = c.heap.polls
        /\ timers' = c.heap.timers
        /\ inflight' = [inflight EXCEPT ![id] = @ - 1]
        /\ UNCHANGED <<configs, callbacks, stale>>

\* The stale bag after one invocation holding s completed, leaving s as s1.
StaleAfter(s, st1) ==
  LET rest == stale (-) SetToBag({s})
  IN IF s.pending = 1 THEN rest
     ELSE rest (+) SetToBag({[s EXCEPT !.state = st1, !.pending = @ - 1]})

\* callback() of an invocation holding a replaced or removed PollState
\* resolved.
StaleWorkSucceeds(s) ==
  /\ UNCHANGED notPollVars
  /\ BagIn(s, stale)
  /\ s.callback # "failing"
  /\ LET c == Complete(s.id, s.state, s.config, TRUE, FALSE)
     IN /\ polls' = c.heap.polls
        /\ timers' = c.heap.timers
        /\ stale' = StaleAfter(s, c.state)
        /\ UNCHANGED <<configs, callbacks, inflight>>

\* callback() of an invocation holding a replaced or removed PollState
\* rejected.
StaleWorkFails(s) ==
  /\ UNCHANGED notPollVars
  /\ BagIn(s, stale)
  /\ s.state.consecutiveErrors < s.config.maxRetries + MaxOvershoot
  /\ LET c == Complete(s.id, s.state, s.config, FALSE, FALSE)
     IN /\ polls' = c.heap.polls
        /\ timers' = c.heap.timers
        /\ stale' = StaleAfter(s, c.state)
        /\ UNCHANGED <<configs, callbacks, inflight>>

\* new PollManager(...)
InitPoll ==
  /\ polls = << >>
  /\ configs = << >>
  /\ callbacks = << >>
  /\ timers = << >>
  /\ inflight = << >>
  /\ stale = EmptyBag

\* ================================================================ strings
\* A string is a sequence of tokens (atomic substrings).
StartsWith(s, pre) == Len(s) >= Len(pre) /\ SubSeq(s, 1, Len(pre)) = pre

EndsWith(s, suf) ==
  Len(s) >= Len(suf) /\ SubSeq(s, Len(s) - Len(suf) + 1, Len(s)) = suf

\* String.prototype.includes for a needle that is one token
Includes(s, needle) == \E i \in 1 .. Len(s) : s[i] = needle

RECURSIVE TrimStart(_)
TrimStart(s) == IF s # << >> /\ Head(s) = " " THEN TrimStart(Tail(s)) ELSE s

RECURSIVE TrimEnd(_)
TrimEnd(s) ==
  IF s # << >> /\ s[Len(s)] = " " THEN TrimEnd(SubSeq(s, 1, Len(s) - 1)) ELSE s

\* String.prototype.trim
trim(s) == TrimEnd(TrimStart(s))

\* Port numbers the model uses, and their decimal text.
Ports == {80, 443, 8080, 8443}

PortStr(n) ==
  IF n = 80 THEN "80" ELSE IF n = 443 THEN "443"
  ELSE IF n = 8080 THEN "8080" ELSE "8443"

\* \d+
IsDigits(tok) == tok \in {PortStr(n) : n \in Ports}

\* parseInt(tok, 10)
parseInt(tok) == CHOOSE n \in Ports : PortStr(n) = tok

\* Tokens that begin with "/" (a path), and the tokens [^:/]+ can match.
PathToks == {"/", "/graphql", "/login"}

IsHostTok(tok) == tok \notin PathToks \cup {":", "://"}

RECURSIVE HostLen(_)
HostLen(s) == IF s # << >> /\ IsHostTok(Head(s)) THEN 1 + HostLen(Tail(s)) ELSE 0

NoParse ==
  [ok |-> FALSE, hostname |-> << >>, port |-> 0, protocol |-> "", path |-> << >>]

\* parseUrl: /^(https?):\/\/([^:/]+)(?::(\d+))?(\/.*)?$/
parseUrl(u) ==
  IF Len(u) < 3 \/ u[1] \notin {"http", "https"} \/ u[2] # "://" THEN NoParse
  ELSE
    LET rest == SubSeq(u, 3, Len(u))
        n == HostLen(rest)
        after == SubSeq(rest, n + 1, Len(rest))
        defaultPort == IF u[1] = "https" THEN 443 ELSE 80
        Parsed(port, path) ==
          [ok |-> TRUE, hostname |-> SubSeq(rest, 1, n), port |-> port,
           protocol |-> u[1], path |-> IF path = << >> THEN <<"/">> ELSE path]
    IN IF n = 0 THEN NoParse
       ELSE IF after = << >> THEN Parsed(defaultPort, << >>)
       ELSE IF after[1] = ":"
         THEN IF Len(after) >= 2 /\ IsDigits(after[2])
                 /\ (Len(after) = 2 \/ after[3] \in PathToks)
              THEN Parsed(parseInt(after[2]), SubSeq(after, 3, Len(after)))
              ELSE NoParse
       ELSE IF after[1] \in PathToks THEN Parsed(defaultPort, after)
       ELSE NoParse

\* String.prototype.toLowerCase, token by token
LowerTok(tok) ==
  IF tok = "CERT" THEN "cert"
  ELSE IF tok = "SSL" THEN "ssl"
  ELSE IF tok = "Unauthorized" THEN "unauthorized"
  ELSE IF tok = "Not Found" THEN "not found"
  ELSE tok

toLowerCase(s) == [i \in 1 .. Len(s) |-> LowerTok(s[i])]

\* ======================================================= SSL discovery
\* Host strings given by callers.
HostTower == <<"tower">>

HostPadded == <<" ", "tower">>

HostRelay == <<"myunraid", ".", "net">>

HostRelaySub == <<"x", ".", "myunraid", ".", "net">>

\* A host whose name begins with the text of HostTower.
HostTower2 == <<"tower", "2">>

DiscoverHosts == {HostTower, HostPadded, HostRelay, HostRelaySub}

\* SslDiscoveryOptions: the ports a caller passes (Absent: left out).
PortOptions ==
  {[httpPort |-> Absent, httpsPort |-> Absent],
   [httpPort |-> 8080, httpsPort |-> 8443]}

\* Location headers a server answers with; NoLocation: no header.
NoLocation == << >>

LocRelayHttps == <<"https", "://", "x", ".", "myunraid", ".", "net", "/login">>

LocRelayHttp == <<"http", "://", "x", ".", "myunraid", ".", "net", "/login">>

LocSameHttps == <<"https", "://", "tower", "/graphql">>

LocHttpsPort == <<"https", "://", "tower", ":", "8443", "/">>

LocPlainHttp == <<"http", "://", "tower", "/login">>

LocRelative == <<"/login">>

Locations ==
  {NoLocation, LocRelayHttps, LocRelayHttp, LocSameHttps, LocHttpsPort,
   LocPlainHttp, LocRelative}

\* Error messages of failed probes; NoError: the probe got a response.
NoError == << >>

MsgRefused == <<"connect ", "ECONNREFUSED">>

MsgProbeTimeout == <<"timeout">>

MsgSelfSigned == <<"self signed", " ", "certificate">>

MsgCertExpired == <<"CERT", "_HAS_EXPIRED">>

\* The TLS handshake met a server that does not speak TLS on the port.
MsgSslProtocol == <<"write EPROTO ", "SSL", " routines:", "wrong version number">>

\* What probeHttp can resolve with.
HttpOutcomes ==
  {[status |-> 0, location |-> NoLocation, error |-> e] :
     e \in {MsgRefused, MsgProbeTimeout}}
  \cup {[status |-> st, location |-> NoLocation, error |-> NoError] :
          st \in {200, 404}}
  \cup {[status |-> 302, location |-> l, error |-> NoError] : l \in Locations}
  \cup {[status |-> st, location |-> LocSameHttps, error |-> NoError] :
          st \in {308, 303}}

\* What probeHttps can resolve with.
HttpsOutcomes ==
  {[status |-> 0, error |-> e] :
     e \in {MsgRefused, MsgProbeTimeout, MsgSelfSigned, MsgCertExpired,
            MsgSslProtocol}}
  \cup {[status |-> st, error |-> NoError] : st \in {200, 401}}

NoHttpOutcome == [status |-> 0, location |-> NoLocation, error |-> NoError]

NoHttpsOutcome == [status |-> 0, error |-> NoError]

\* A test that takes every failure for a certificate failure.
isSslErrorAny(message) == TRUE

\* isSslError
isSslError(message) ==
  LET msg == toLowerCase(message)
  IN \/ Includes(msg, "ssl")
     \/ Includes(msg, "certificate")
     \/ Includes(msg, "cert")
     \/ Includes(msg, "unable to verify")
     \/ Includes(msg, "self signed")
     \/ Includes(msg, "self-signed")
     \/ Includes(msg, "depth zero")
     \/ Includes(msg, "unable to get local issuer")

NoResult ==
  [url |-> << >>, sslMode |-> "", verifySsl |-> FALSE, useHttps |-> FALSE,
   port |-> 0]

IdleCall ==
  [pc |-> "idle", host |-> << >>, httpPort |-> 0, httpsPort |-> 0,
   httpProbe |-> NoHttpOutcome, httpsStrictProbe |-> NoHttpsOutcome,
   httpsSelfSignedProbe |-> NoHttpsOutcome, result |-> NoResult,
   probes |-> 0, hit |-> FALSE, caller |-> "user",
   hasPrior |-> FALSE, prior |-> NoResult, cleared |-> FALSE]

\* Fields of dcall that record the history of calls: `probes` counts the
\* probe requests the call has sent; `hasPrior` and `prior` tell that the
\* call before this one had the same arguments and what it returned, with no
\* clearSslDiscoveryCache between its return and this call's start;
\* `cleared` that clearSslDiscoveryCache ran since this call started.

\* `${cleanHost}:${httpPort}:${httpsPort}`
CacheKey(cleanHost, httpPort, httpsPort) ==
  cleanHost \o <<":", PortStr(httpPort), ":", PortStr(httpsPort)>>

\* The key under which the redirect branches store their result.
RedirectCacheKey(cleanHost, httpPort, httpsPort) == cleanHost

\* A relay test that knows the bare domain only.
IsRelayHostExact(h) == h = <<"myunraid", ".", "net">>

\* cleanHost === 'myunraid.net' || cleanHost.endsWith('.myunraid.net')
IsRelayHost(h) ==
  h = <<"myunraid", ".", "net">> \/ EndsWith(h, <<".", "myunraid", ".", "net">>)

\* `${proto}://${host}${port !== std ? `:${port}` : ''}/graphql`
GraphqlUrl(proto, host, port, std) ==
  <<proto, "://">> \o host
    \o (IF port # std THEN <<":", PortStr(port)>> ELSE << >>)
    \o <<"/graphql">>

\* The result of the strict branch on the host itself and of the HTTPS
\* probe with verification.
StrictResult(cleanHost, httpsPort) ==
  [url |-> GraphqlUrl("https", cleanHost, httpsPort, 443), sslMode |-> "strict",
   verifySsl |-> TRUE, useHttps |-> TRUE, port |-> httpsPort]

\* The result of the self-signed probe and of the default fallback.
SelfSignedResult(cleanHost, httpsPort) ==
  [url |-> GraphqlUrl("https", cleanHost, httpsPort, 443), sslMode |-> "yes",
   verifySsl |-> FALSE, useHttps |-> TRUE, port |-> httpsPort]

\* The result of the "No mode" branch.
PlainResult(cleanHost, httpPort) ==
  [url |-> GraphqlUrl("http", cleanHost, httpPort, 80), sslMode |-> "no",
   verifySsl |-> FALSE, useHttps |-> FALSE, port |-> httpPort]

\* The results of the two redirect branches.
RedirectResult(parsed, mode) ==
  [url |-> GraphqlUrl(parsed.protocol, parsed.hostname, parsed.port, 443),
   sslMode |-> mode, verifySsl |-> (mode = "strict"), useHttps |-> TRUE,
   port |-> parsed.port]

\* `[301, 302, 307, 308].includes(status) && location`
IsFollowableRedirect(probe) ==
  probe.status \in {301, 302, 307, 308} /\ probe.location # NoLocation

\* What discoverSslMode does with the answer of the plaintext probe:
\* "strict" / "yes" (redirect branches), "no", or "next" (go on to HTTPS).
HttpStep(probe) ==
  LET parsed == parseUrl(probe.location)
  IN IF IsFollowableRedirect(probe) /\ parsed.ok /\ parsed.hostname # << >>
        /\ IsRelayHost(parsed.hostname)
     THEN "strict"
     ELSE IF IsFollowableRedirect(probe) /\ parsed.ok /\ parsed.hostname # << >>
             /\ parsed.protocol = "https"
     THEN "yes"
     ELSE IF probe.status # 0 /\ probe.status >= 200 THEN "no"
     ELSE "next"

\* A discoverSslMode call that returns `result` (and stores it under `key`
\* unless it came from the cache).
Finish(call, result, key, store) ==
  /\ dcall' = [call EXCEPT !.pc = "done", !.result = result]
  /\ sslDiscoveryCache' =
       IF store THEN Put(sslDiscoveryCache, key, result) ELSE sslDiscoveryCache

\* discoverSslMode(host, options) up to its first await.
DiscoverEnter(host, options, caller) ==
  LET httpPort == OrDefault(options.httpPort, 80)
      httpsPort == OrDefault(options.httpsPort, 443)
      cleanHost == trim(host)
      cacheKey == CacheKey(cleanHost, httpPort, httpsPort)
      again == /\ dcall.pc = "done" /\ ~dcall.cleared /\ dcall.host = host
               /\ dcall.httpPort = httpPort /\ dcall.httpsPort = httpsPort
      call == [IdleCall EXCEPT !.host = host, !.httpPort = httpPort,
                               !.httpsPort = httpsPort, !.caller = caller,
                               !.hasPrior = again,
                               !.prior = IF again THEN dcall.result ELSE NoResult]
  IN IF cacheKey \in DOMAIN sslDiscoveryCache
     THEN Finish([call EXCEPT !.hit = TRUE], sslDiscoveryCache[cacheKey],
                 cacheKey, FALSE)
     ELSE IF IsRelayHost(cleanHost)
     THEN Finish(call, StrictResult(cleanHost, httpsPort), cacheKey, TRUE)
     ELSE /\ dcall' = [call EXCEPT !.pc = "http", !.probes = 1]
          /\ UNCHANGED sslDiscoveryCache

\* A caller other than executeQuery calls discoverSslMode.
DiscoverBegin(host, options) ==
  /\ UNCHANGED notDiscVars
  /\ dcall.pc \in {"idle", "done"}
  /\ DiscoverEnter(host, options, "user")

\* probeHttp resolved with `probe`: steps 1 of the detection algorithm.
HttpProbeDone(probe) ==
  /\ UNCHANGED notDiscVars
  /\ dcall.pc = "http"
  /\ LET cleanHost == trim(dcall.host)
         cacheKey == CacheKey(cleanHost, dcall.httpPort, dcall.httpsPort)
         redirectKey == RedirectCacheKey(cleanHost, dcall.httpPort, dcall.httpsPort)
         call == [dcall EXCEPT !.httpProbe = probe]
         step == HttpStep(probe)
     IN IF step \in {"strict", "yes"}
        THEN Finish(call, RedirectResult(parseUrl(probe.location), step),
                    redirectKey, TRUE)
        ELSE IF step = "no"
        THEN Finish(call, PlainResult(cleanHost, dcall.httpPort), cacheKey, TRUE)
        ELSE /\ dcall' = [call EXCEPT !.pc = "strict", !.probes = @ + 1]
             /\ UNCHANGED sslDiscoveryCache

\* probeHttps with verification resolved with `probe`: step 2, and the
\* decision of step 3 to probe again.
StrictProbeDone(probe) ==
  /\ UNCHANGED notDiscVars
  /\ dcall.pc = "strict"
  /\ LET cleanHost == trim(dcall.host)
         cacheKey == CacheKey(cleanHost, dcall.httpPort, dcall.httpsPort)
         call == [dcall EXCEPT !.httpsStrictProbe = probe]
     IN IF probe.status # 0 /\ probe.status >= 200
        THEN Finish(call, StrictResult(cleanHost, dcall.httpsPort), cacheKey, TRUE)
        ELSE IF probe.error # NoError /\ isSslError(probe.error)
        THEN /\ dcall' = [call EXCEPT !.pc = "self", !.probes = @ + 1]
             /\ UNCHANGED sslDiscoveryCache
        ELSE Finish(call, SelfSignedResult(cleanHost, dcall.httpsPort),
                    cacheKey, TRUE)

\* A last step that caches a confirmed result only, not the fallback.
SelfSignedProbeDoneConfirmedOnly(probe) ==
  /\ UNCHANGED notDiscVars
  /\ dcall.pc = "self"
  /\ LET cleanHost == trim(dcall.host)
         cacheKey == CacheKey(cleanHost, dcall.httpPort, dcall.httpsPort)
         call == [dcall EXCEPT !.httpsSelfSignedProbe = probe]
     IN Finish(call, SelfSignedResult(cleanHost, dcall.httpsPort), cacheKey,
               probe.status # 0 /\ probe.status >= 200)

\* probeHttps without verification resolved with `probe`: step 3 and the
\* default fallback.
SelfSignedProbeDone(probe) ==
  /\ UNCHANGED notDiscVars
  /\ dcall.pc = "self"
  /\ LET cleanHost == trim(dcall.host)
         cacheKey == CacheKey(cleanHost, dcall.httpPort, dcall.httpsPort)
         call == [dcall EXCEPT !.httpsSelfSignedProbe = probe]
     IN Finish(call, SelfSignedResult(cleanHost, dcall.httpsPort), cacheKey, TRUE)

\* A key test that takes every key beginning with the host's text.
KeyOfHostByPrefix(key, cleanHost) == StartsWith(key, cleanHost)

\* key === cleanHost || key.startsWith(`${cleanHost}:`)
KeyOfHost(key, cleanHost) ==
  key = cleanHost \/ StartsWith(key, cleanHost \o <<":">>)

\* clearSslDiscoveryCache(host); host = << >> stands for no argument (and
\* for the empty string, which is falsy as well).
ClearCache(host) ==
  /\ UNCHANGED notDiscVars
  /\ sslDiscoveryCache' =
       IF host # << >>
       THEN LET cleanHost == trim(host)
                kept == {k \in DOMAIN sslDiscoveryCache :
                           ~KeyOfHost(k, cleanHost)}
            IN [k \in kept |-> sslDiscoveryCache[k]]
       ELSE << >>
  /\ dcall' = [dcall EXCEPT !.cleared = TRUE]

InitDisc ==
  /\ sslDiscoveryCache = << >>
  /\ dcall = IdleCall

\* ========================================================== executeQuery
\* ErrorCode and retryable flag of an UnraidApiError.
ApiError(code, retryable) == [code |-> code, retryable |-> retryable]

\* A createHttpError whose table sends 504 to SERVER_ERROR.
createHttpErrorNo504(status) ==
  IF status \in {401, 403} THEN ApiError("AUTHENTICATION_ERROR", FALSE)
  ELSE IF status = 404 THEN ApiError("RESOURCE_NOT_FOUND", FALSE)
  ELSE IF status = 429 THEN ApiError("RATE_LIMITED", TRUE)
  ELSE IF status \in {500, 502, 503, 504} THEN ApiError("SERVER_ERROR", TRUE)
  ELSE ApiError("UNKNOWN_ERROR", FALSE)

\* A createHttpError whose 429 entry is not retryable.
createHttpError429Final(status) ==
  IF status \in {401, 403} THEN ApiError("AUTHENTICATION_ERROR", FALSE)
  ELSE IF status = 404 THEN ApiError("RESOURCE_NOT_FOUND", FALSE)
  ELSE IF status = 429 THEN ApiError("RATE_LIMITED", FALSE)
  ELSE IF status \in {500, 502, 503} THEN ApiError("SERVER_ERROR", TRUE)
  ELSE IF status = 504 THEN ApiError("TIMEOUT_ERROR", TRUE)
  ELSE ApiError("UNKNOWN_ERROR", FALSE)

\* createHttpError: errorMap[status] ?? UNKNOWN_ERROR
createHttpError(status) ==
  IF status \in {401, 403} THEN ApiError("AUTHENTICATION_ERROR", FALSE)
  ELSE IF status = 404 THEN ApiError("RESOURCE_NOT_FOUND", FALSE)
  ELSE IF status = 429 THEN ApiError("RATE_LIMITED", TRUE)
  ELSE IF status \in {500, 502, 503} THEN ApiError("SERVER_ERROR", TRUE)
  ELSE IF status = 504 THEN ApiError("TIMEOUT_ERROR", TRUE)
  ELSE ApiError("UNKNOWN_ERROR", FALSE)

\* An entry of the `errors` list of a GraphQL response: extensions.code
\* ("" when absent) and the message.
GqlError(code, message) == [code |-> code, message |-> message]

\* A classification that looks at extensions.code only.
mapGraphQLErrorCodeOnly(error) ==
  IF error.code \in {"UNAUTHENTICATED", "FORBIDDEN"} THEN "AUTHENTICATION_ERROR"
  ELSE IF error.code = "NOT_FOUND" THEN "RESOURCE_NOT_FOUND"
  ELSE IF error.code = "INTERNAL_SERVER_ERROR" THEN "SERVER_ERROR"
  ELSE IF error.code = "BAD_USER_INPUT" THEN "VALIDATION_ERROR"
  ELSE "OPERATION_FAILED"

\* mapGraphQLErrorCode
mapGraphQLErrorCode(error) ==
  LET message == toLowerCase(error.message)
  IN IF error.code \in {"UNAUTHENTICATED", "FORBIDDEN"} THEN "AUTHENTICATION_ERROR"
     ELSE IF error.code = "NOT_FOUND" THEN "RESOURCE_NOT_FOUND"
     ELSE IF error.code = "INTERNAL_SERVER_ERROR" THEN "SERVER_ERROR"
     ELSE IF error.code = "BAD_USER_INPUT" THEN "VALIDATION_ERROR"
     ELSE IF Includes(message, "not found") THEN "RESOURCE_NOT_FOUND"
     ELSE IF Includes(message, "unauthorized") \/ Includes(message, "authentication")
     THEN "AUTHENTICATION_ERROR"
     ELSE IF Includes(message, "timeout") THEN "TIMEOUT_ERROR"
     ELSE "OPERATION_FAILED"

\* Messages of the errors makeHttpRequest rejects with.
MsgTimedOut == <<"Request ", "timed out", " after 10000ms">>

MsgDns == <<"getaddrinfo ", "ENOTFOUND">>

MsgHangUp == <<"socket hang up">>

MsgInvalidUrl == <<"Invalid URL: ">>

\* A catch block that rethrows an Error it does not recognise.
ClassifyExceptionRethrow(message) ==
  IF Includes(message, "timed out") THEN ApiError("TIMEOUT_ERROR", TRUE)
  ELSE IF Includes(message, "ECONNREFUSED") THEN ApiError("CONNECTION_ERROR", TRUE)
  ELSE IF Includes(message, "ENOTFOUND") \/ Includes(message, "EAI_AGAIN")
  THEN ApiError("CONNECTION_ERROR", TRUE)
  ELSE ApiError("Error", FALSE)

\* The catch block of executeQuery for an Error that is not an
\* UnraidApiError.
ClassifyException(message) ==
  IF Includes(message, "timed out") THEN ApiError("TIMEOUT_ERROR", TRUE)
  ELSE IF Includes(message, "ECONNREFUSED") THEN ApiError("CONNECTION_ERROR", TRUE)
  ELSE IF Includes(message, "ENOTFOUND") \/ Includes(message, "EAI_AGAIN")
  THEN ApiError("CONNECTION_ERROR", TRUE)
  ELSE ApiError("CONNECTION_ERROR", TRUE)

\* Response bodies. form: whether the text is JSON and a JSON object;
\* data: how the `data` member relates to the caller's schema; errors:
\* whether `errors` is absent, an array of error objects (list) or
\* something else.
Body(form, data, errors, list) ==
  [form |-> form, data |-> data, errors |-> errors, list |-> list]

EmptyBody == Body("notjson", "missing", "absent", << >>)

ErrUnauth == GqlError("UNAUTHENTICATED", <<"Unauthorized">>)

ErrNoCode == GqlError("", <<"Not Found">>)

ErrPlain == GqlError("", <<"boom">>)

ErrInternal == GqlError("INTERNAL_SERVER_ERROR", <<"boom">>)

ErrTimeout == GqlError("", <<"upstream ", "timeout">>)

\* An entry whose code is not in the table, with a telling message.
ErrOddCode == GqlError("GRAPHQL_VALIDATION_FAILED", <<"Not Found">>)

\* An entry without a code whose message speaks of a server fault.
ErrInternalMsg == GqlError("", <<"Internal server error">>)

Bodies ==
  {EmptyBody, Body("notobject", "missing", "absent", << >>),
   Body("object", "valid", "absent", << >>),
   Body("object", "valid", "list", << >>),
   Body("object", "invalid", "absent", << >>),
   Body("object", "missing", "absent", << >>),
   Body("object", "null", "absent", << >>),
   Body("object", "valid", "malformed", << >>),
   Body("object", "null", "list", <<ErrUnauth, ErrPlain>>),
   Body("object", "null", "list", <<ErrNoCode>>),
   Body("object", "null", "list", <<ErrPlain, ErrUnauth>>),
   Body("object", "valid", "list", <<ErrPlain>>),
   Body("object", "null", "list", <<ErrInternal>>),
   Body("object", "null", "list", <<ErrTimeout>>),
   Body("object", "null", "list", <<ErrOddCode>>),
   Body("object", "null", "list", <<ErrInternalMsg, ErrInternal>>),
   Body("object", "invalid", "list", <<ErrUnauth>>)}

\* An envelope schema that does not validate `data`.
EnvelopeParsesAnyData(body) ==
  /\ body.form = "object"
  /\ body.data # "missing"
  /\ body.errors \in {"absent", "list"}

\* GraphQLResponseSchema(schema).safeParse(json).success
EnvelopeParses(body) ==
  /\ body.form = "object"
  /\ body.data \in {"valid", "null"}
  /\ body.errors \in {"absent", "list"}

\* What makeHttpRequest settles with: a response (kind "response") or a
\* rejection (kind "error").
Response(status, location, body) ==
  [kind |-> "response", status |-> status, location |-> location,
   body |-> body, error |-> NoError]

Rejection(message) ==
  [kind |-> "error", status |-> 0, location |-> NoLocation,
   body |-> EmptyBody, error |-> message]

NoResponse == Rejection(NoError)

RedirectTargets == {LocSameHttps, LocPlainHttp, LocRelative}

ServerAnswers ==
  {Rejection(m) : m \in {MsgTimedOut, MsgRefused, MsgDns, MsgHangUp}}
  \cup {Response(200, NoLocation, b) : b \in Bodies}
  \cup {Response(st, NoLocation, EmptyBody) :
          st \in {204, 302, 400, 401, 403, 404, 418, 429, 500, 502, 503, 504}}
  \cup {Response(st, l, EmptyBody) : st \in {301, 302, 307, 308},
                                     l \in RedirectTargets}

\* response.redirectUrl: set by makeHttpRequest for a redirect status with a
\* Location header.
redirectUrl(resp) ==
  IF resp.kind = "response" /\ resp.status \in {301, 302, 307, 308}
  THEN resp.location ELSE NoLocation

MAX_REDIRECTS == 5

\* UnraidClientConfig values given by callers.
ClientConfig(host, resolvedUrl, sslMode, httpPort, httpsPort) ==
  [host |-> host, resolvedUrl |-> resolvedUrl, sslMode |-> sslMode,
   httpPort |-> httpPort, httpsPort |-> httpsPort]

ClientConfigs ==
  {ClientConfig(HostTower, << >>, "", Absent, Absent),
   ClientConfig(HostTower, << >>, "", 8080, 8443),
   ClientConfig(<<" ">>, << >>, "", Absent, Absent),
   ClientConfig(<< >>, LocSameHttps, "yes", Absent, Absent),
   ClientConfig(HostTower, LocSameHttps, "yes", Absent, Absent),
   ClientConfig(HostTower, LocSameHttps, "strict", Absent, Absent),
   ClientConfig(HostTower, LocSameHttps, "", Absent, Absent),
   ClientConfig(HostTower, <<"tower">>, "no", Absent, Absent)}

NoConfig == ClientConfig(<< >>, << >>, "", Absent, Absent)

NoApiError == ApiError("", FALSE)

IdleExec ==
  [pc |-> "idle", config |-> NoConfig, resolvedUrl |-> << >>,
   allowSelfSigned |-> FALSE, sslMode |-> "", redirectCount |-> 0,
   reqUrl |-> << >>, sent |-> 0, timeoutId |-> FALSE, headStatus |-> 0, response |-> NoResponse, outcome |-> "", error |-> NoApiError]

\* Fields of ecall: resolvedUrl, allowSelfSigned and redirectCount are the
\* local variables of executeQuery; timeoutId tells whether the setTimeout
\* of the pending makeHttpRequest is armed and headStatus is the status of
\* the response whose body is being read; sslMode is config.sslMode for a config
\* with a resolved URL and sslSettings.sslMode otherwise; reqUrl is the URL of the request that is
\* awaiting its answer; sent counts the requests made; response is the last
\* answer; outcome is "return" or "throw" once pc = "done", with the thrown
\* error in `error`.

\* throw new UnraidApiError(...)
Throw(call, err) == [call EXCEPT !.pc = "done", !.outcome = "throw", !.error = err]

\* makeHttpRequest(url, ...) called inside the try block: an unparsable URL
\* rejects with "Invalid URL", which the catch block classifies.
Send(call, url) ==
  IF parseUrl(url).ok
  THEN [call EXCEPT !.pc = "request", !.reqUrl = url, !.sent = @ + 1,
                    !.timeoutId = TRUE, !.headStatus = 0]
  ELSE Throw(call, ClassifyException(MsgInvalidUrl))

\* executeQuery from "Final validation of the URL" to the first request.
Connect(call, url, allowSelfSigned) ==
  LET c1 == [call EXCEPT !.resolvedUrl = url, !.allowSelfSigned = allowSelfSigned]
      parsedUrl == parseUrl(url)
  IN IF ~parsedUrl.ok \/ parsedUrl.hostname = << >>
     THEN Throw(c1, ApiError("VALIDATION_ERROR", FALSE))
     ELSE Send(c1, url)

\* executeQuery after the redirect loop, for the final response.
Conclude(call, resp) ==
  LET body == resp.body
  IN IF resp.status < 200 \/ resp.status >= 300
     THEN Throw(call, createHttpError(resp.status))
     ELSE IF body.form = "notjson"
     THEN Throw(call, ApiError("VALIDATION_ERROR", FALSE))
     ELSE IF ~EnvelopeParses(body)
     THEN Throw(call, ApiError("VALIDATION_ERROR", FALSE))
     ELSE IF body.errors = "list" /\ Len(body.list) > 0
     THEN Throw(call, ApiError(mapGraphQLErrorCode(body.list[1]), FALSE))
     ELSE IF body.data = "null"
     THEN Throw(call, ApiError("SERVER_ERROR", TRUE))
     ELSE [call EXCEPT !.pc = "done", !.outcome = "return"]

\* makeHttpRequest: whether the request to url verifies the server's
\* certificate (rejectUnauthorized is switched off for `useHttps &&
\* allowSelfSigned` only; a plain request has no certificate to verify).
rejectUnauthorized(url, allowSelfSigned) ==
  LET useHttps == parseUrl(url).protocol = "https"
  IN useHttps /\ ~allowSelfSigned

\* executeQuery resumes with the settled makeHttpRequest promise.
OnAnswer(call, resp) ==
  LET c1 == [call EXCEPT !.response = resp, !.timeoutId = FALSE]
      next == redirectUrl(resp)
  IN IF resp.kind = "error" THEN Throw(c1, ClassifyException(resp.error))
     ELSE IF next # NoLocation /\ call.redirectCount < MAX_REDIRECTS
     THEN Send([c1 EXCEPT !.redirectCount = @ + 1,
                          !.resolvedUrl = IF parseUrl(next).ok THEN next ELSE @],
               next)
     ELSE Conclude(c1, resp)

\* A host check that forgets to trim.
HostMissingNoTrim(host) == host = << >>

\* !config.host || config.host.trim() === ''
HostMissing(host) == host = << >> \/ trim(host) = << >>

\* executeQuery(config, ...) up to its first await.
ExecBegin(config) ==
  /\ UNCHANGED notExecVars
  /\ ecall.pc \in {"idle", "done"}
  /\ LET call == [IdleExec EXCEPT !.config = config]
     IN IF HostMissing(config.host)
        THEN /\ ecall' = Throw(call, ApiError("VALIDATION_ERROR", FALSE))
             /\ UNCHANGED discVars
        ELSE IF config.resolvedUrl # << >>
        THEN /\ ecall' = Connect([call EXCEPT !.sslMode = config.sslMode],
                                 config.resolvedUrl, config.sslMode # "strict")
             /\ UNCHANGED discVars
        ELSE /\ dcall.pc \in {"idle", "done"}
             /\ ecall' = [call EXCEPT !.pc = "discover"]
             /\ DiscoverEnter(trim(config.host),
                              [httpPort |-> Absent, httpsPort |-> Absent], "exec")

\* A resumption that accepts unverified certificates in "yes" mode only.
ExecDiscoveredYesOnly ==
  /\ UNCHANGED notExecVars
  /\ ecall.pc = "discover"
  /\ dcall.pc = "done" /\ dcall.caller = "exec"
  /\ ecall' = Connect([ecall EXCEPT !.sslMode = dcall.result.sslMode],
                      dcall.result.url, dcall.result.sslMode = "yes")
  /\ dcall' = IdleCall
  /\ UNCHANGED sslDiscoveryCache

\* `await discoverSslMode(host, timeout)` resumes.
ExecDiscovered ==
  /\ UNCHANGED notExecVars
  /\ ecall.pc = "discover"
  /\ dcall.pc = "done" /\ dcall.caller = "exec"
  /\ ecall' = Connect([ecall EXCEPT !.sslMode = dcall.result.sslMode],
                      dcall.result.url, ~dcall.result.verifySsl)
  /\ dcall' = IdleCall
  /\ UNCHANGED sslDiscoveryCache

\* The pending makeHttpRequest settles with resp.
Answer(resp) ==
  /\ UNCHANGED notExecVars
  /\ ecall.pc = "request"
  /\ ecall' = OnAnswer(ecall, resp)
  /\ UNCHANGED discVars

\* The response callback of the pending request runs for a response with
\* `status` and no Location header whose body has not ended yet: a redirect
\* status clears the timeout before the header is looked at.
ResponseStalls(status) ==
  /\ UNCHANGED notExecVars
  /\ ecall.pc = "request"
  /\ ecall' = [ecall EXCEPT !.pc = "body", !.headStatus = status,
                            !.timeoutId = (status \notin {301, 302, 307, 308})]
  /\ UNCHANGED discVars

\* The body that is being read ends (res 'end'), or the response fails
\* (res 'error').
BodyEnds(resp) ==
  /\ UNCHANGED notExecVars
  /\ ecall.pc = "body"
  /\ \/ resp.kind = "error"
     \/ resp.status = ecall.headStatus /\ resp.location = NoLocation
  /\ ecall' = OnAnswer(ecall, resp)
  /\ UNCHANGED discVars

\* The setTimeout callback of the pending makeHttpRequest runs: the request
\* is destroyed and the promise rejects.
RequestTimeout ==
  /\ UNCHANGED notExecVars
  /\ ecall.pc \in {"request", "body"}
  /\ ecall.timeoutId
  /\ ecall' = OnAnswer(ecall, Rejection(MsgTimedOut))
  /\ UNCHANGED discVars

InitExec == ecall = IdleExec

vars == <<pollVars, discVars, execVars>>

Init == InitPoll /\ InitDisc /\ InitExec

\* The operations of a PollManager whose callers use the job ids `ids`, the
\* callbacks `kinds` and the configurations `cfgs`.
PollNext(ids, kinds, cfgs) ==
  \/ \E id \in ids, cb \in kinds, c \in cfgs : Register(id, cb, c)
  \/ \E id \in ids : Start(id)
  \/ \E id \in ids : Stop(id)
  \/ \E id \in ids : Unregister(id)
  \/ \E id \in ids : ForceRun(id)
  \/ \E id \in ids : \E t \in HandlesOf(id) : Tick(t)
  \/ \E id \in ids : WorkSucceeds(id)
  \/ \E id \in ids : WorkFails(id)
  \/ \E s \in BagToSet(stale) : StaleWorkSucceeds(s)
  \/ \E s \in BagToSet(stale) : StaleWorkFails(s)

Next == PollNext(Ids, {"flaky"}, {CfgRetry3})

Spec == Init /\ [][Next]_vars

\* One job with the retry limit of the storage poll.
NextOne == PollNext({"a"}, {"flaky"}, {CfgRetry3})

SpecOne == Init /\ [][NextOne]_vars

\* Job "a" under every operation of the manager, next to a job "b" that is
\* registered and started, with its timer armed and the work invoked by
\* start() succeeding or failing.
NextPair ==
  \/ PollNext({"a"}, {"flaky"}, {CfgRetry3})
  \/ Register("b", "flaky", CfgRetry3)
  \/ Start("b")
  \/ WorkSucceeds("b")
  \/ WorkFails("b")

SpecPair == Init /\ [][NextPair]_vars

NextCfg == PollNext({"a"}, {"flaky"}, {CfgSystem, CfgStorage})

SpecCfg == Init /\ [][NextCfg]_vars

NextBackoff == PollNext({"a"}, {"flaky"}, {CfgBackoff})

SpecBackoff == Init /\ [][NextBackoff]_vars

\* A job whose work always fails, started once and then left to the
\* scheduler: both ids are registered with the default maxRetries.
InitExhaust ==
  /\ polls = [id \in Ids |-> NewPollState(fullConfig(CfgTestDefault))]
  /\ configs = [id \in Ids |-> fullConfig(CfgTestDefault)]
  /\ callbacks = [id \in Ids |-> "failing"]
  /\ timers = << >>
  /\ inflight = [id \in Ids |-> 0]
  /\ stale = EmptyBag
  /\ InitDisc
  /\ InitExec

\* Whether start(id) has been called since the registration: it invoked the
\* work, which is pending or has failed.
Started(id) == polls[id].isRunning \/ inflight[id] > 0 \/ polls[id].lastError

StartOnce(id) == ~Started(id) /\ Start(id)

NextExhaust ==
  \/ \E id \in Ids : StartOnce(id)
  \/ \E id \in Ids : \E t \in HandlesOf(id) : Tick(t)
  \/ \E id \in Ids : WorkFails(id)

SpecExhaust == InitExhaust /\ [][NextExhaust]_vars

\* Callers of discoverSslMode and clearSslDiscoveryCache, and the servers
\* that answer the probes.
NextDisc ==
  \/ \E h \in DiscoverHosts, o \in PortOptions : DiscoverBegin(h, o)
  \/ \E p \in HttpOutcomes : HttpProbeDone(p)
  \/ \E p \in HttpsOutcomes : StrictProbeDone(p)
  \/ \E p \in HttpsOutcomes : SelfSignedProbeDone(p)
  \/ \E h \in DiscoverHosts \cup {<< >>} : ClearCache(h)

SpecDisc == Init /\ [][NextDisc]_vars

\* Probe answers of the servers executeQuery is run against.
ExecHttpOutcomes ==
  {[status |-> 0, location |-> NoLocation, error |-> MsgRefused],
   [status |-> 200, location |-> NoLocation, error |-> NoError],
   [status |-> 302, location |-> LocSameHttps, error |-> NoError],
   [status |-> 302, location |-> LocRelayHttp, error |-> NoError]}

ExecHttpsOutcomes ==
  {[status |-> 0, error |-> MsgRefused], [status |-> 0, error |-> MsgSelfSigned],
   [status |-> 200, error |-> NoError]}

\* Callers of executeQuery, and the servers that answer it.
NextExec ==
  \/ \E c \in ClientConfigs : ExecBegin(c)
  \/ ExecDiscovered
  \/ \E r \in ServerAnswers : Answer(r)
  \/ \E p \in ExecHttpOutcomes : HttpProbeDone(p)
  \/ \E p \in ExecHttpsOutcomes : StrictProbeDone(p)
  \/ \E p \in ExecHttpsOutcomes : SelfSignedProbeDone(p)
  \/ ClearCache(<< >>)

SpecExec == Init /\ [][NextExec]_vars

\* ------------------------------------------------------------ claims C1-C5

\* All pending invocations that were made for job id, whatever PollState
\* they hold.
PendingOf(id) ==
  (IF id \in DOMAIN inflight THEN inflight[id] ELSE 0)

\* C1: for any single job id, two invocations of the job's work callback are
\* never in flight at the same time.
C1_NoConcurrentWork == \A id \in Ids : PendingOf(id) <= 1

\* Work invocations made by the scheduler for id in the always-failing
\* scenario: each one is pending or has failed.
InvokedExhaust(id) == polls[id].consecutiveErrors + inflight[id]

\* C2: a started job with maxRetries=5 whose work always fails is stopped
\* (isRunning=false, timer cleared) by its 5th consecutive failure, and the
\* scheduler does not invoke its work a 6th time.
C2_StopsAtFifthFailure ==
  \A id \in Ids :
    /\ polls[id].consecutiveErrors >= 5 =>
         /\ ~polls[id].isRunning
         /\ polls[id].interval = Null
         /\ HandlesOf(id) \cap DOMAIN timers = {}
    /\ InvokedExhaust(id) <= 5

\* C3: minInterval <= currentInterval <= maxInterval for every registered
\* job in every reachable state.
C3_IntervalWithinBounds ==
  \A id \in DOMAIN polls :
    /\ configs[id].minInterval <= polls[id].currentInterval
    /\ polls[id].currentInterval <= configs[id].maxInterval

\* 1000, 2000, 4000, 8000, 16000, 30000, 30000, ...
BackoffSeq(k) ==
  IF k = 0 THEN 1000
  ELSE IF k = 1 THEN 2000
  ELSE IF k = 2 THEN 4000
  ELSE IF k = 3 THEN 8000
  ELSE IF k = 4 THEN 16000
  ELSE 30000

\* C4: with baseInterval=1000, maxInterval=30000, backoffMultiplier=2 the
\* current interval is 1000 with no failure and 2000, 4000, 8000, 16000,
\* 30000, 30000, ... after the k-th consecutive failure; a success brings it
\* back to 1000.
C4_BackoffSequence ==
  /\ \A id \in DOMAIN polls :
       polls[id].currentInterval = BackoffSeq(polls[id].consecutiveErrors)
  /\ \A s \in BagToSet(stale) :
       s.state.currentInterval = BackoffSeq(s.state.consecutiveErrors)

C4_Witness ==
  \E id \in DOMAIN polls :
    /\ polls[id].consecutiveErrors = 6
    /\ polls[id].currentInterval = 30000
    /\ polls[id].isRunning

\* C5: every successful invocation sets consecutiveErrors to 0 and
\* currentInterval to baseInterval whatever they were, and every failed
\* invocation increases consecutiveErrors by exactly 1.
C5_Step ==
  /\ \A id \in Ids :
       WorkSucceeds(id) =>
         /\ polls'[id].consecutiveErrors = 0
         /\ polls'[id].currentInterval = configs[id].baseInterval
  /\ \A id \in Ids :
       WorkFails(id) =>
         polls'[id].consecutiveErrors = polls[id].consecutiveErrors + 1
  /\ \A s \in BagToSet(stale) :
       (StaleWorkSucceeds(s) /\ s.pending > 1) =>
         \E s2 \in BagToSet(stale') :
           /\ s2.id = s.id /\ s2.pending = s.pending - 1
           /\ s2.state.consecutiveErrors = 0
           /\ s2.state.currentInterval = s.config.baseInterval
  /\ \A s \in BagToSet(stale) :
       (StaleWorkFails(s) /\ s.pending > 1) =>
         \E s2 \in BagToSet(stale') :
           /\ s2.id = s.id /\ s2.pending = s.pending - 1
           /\ s2.state.consecutiveErrors = s.state.consecutiveErrors + 1

C5_Bookkeeping == [][C5_Step]_vars

\* A success has reset a job that had failed before and is failing again.
C5_Witness ==
  \E id \in DOMAIN polls :
    /\ polls[id].lastSuccess
    /\ polls[id].lastError
    /\ polls[id].consecutiveErrors = 0
    /\ polls[id].currentInterval = configs[id].baseInterval
    /\ polls[id].currentInterval < configs[id].minInterval

\* ------------------------------------------------------------ claims C6-C8

\* The host is the cloud-relay domain or a subdomain of it.
OnRelayDomain(h) ==
  /\ Len(h) >= 3
  /\ SubSeq(h, Len(h) - 2, Len(h)) = <<"myunraid", ".", "net">>
  /\ Len(h) > 3 => h[Len(h) - 3] = "."

\* C6: a second discover call with identical host, httpPort and httpsPort,
\* with no invalidation in between, returns a result identical to the first
\* call's and sends no network probe.
C6_SecondCallCached ==
  (dcall.hasPrior /\ ~dcall.cleared) =>
    /\ dcall.probes = 0
    /\ dcall.pc = "done" => dcall.result = dcall.prior

\* A response is a redirect when its status is 301/302/307/308 and it
\* carries a Location header.
IsRedirect(probe) ==
  probe.status \in {301, 302, 307, 308} /\ probe.location # NoLocation

\* The mode and the place (scheme, host, port) of the first matching step of
\* the ordered algorithm, for the answers http, strict and self of the three
\* probes.
FirstMatchingStep(cleanHost, httpPort, httpsPort, http, strict, self) ==
  LET target == parseUrl(http.location)
      At(mode, proto, host, port) ==
        [sslMode |-> mode, protocol |-> proto, hostname |-> host, port |-> port]
  IN IF IsRedirect(http) /\ target.ok /\ OnRelayDomain(target.hostname)
     THEN At("strict", target.protocol, target.hostname, target.port)
     ELSE IF IsRedirect(http) /\ target.ok /\ target.protocol = "https"
     THEN At("yes", target.protocol, target.hostname, target.port)
     ELSE IF ~IsRedirect(http) /\ http.status >= 200
     THEN At("no", "http", cleanHost, httpPort)
     ELSE IF strict.status >= 200
     THEN At("strict", "https", cleanHost, httpsPort)
     ELSE IF isSslError(strict.error) /\ self.status >= 200
     THEN At("yes", "https", cleanHost, httpsPort)
     ELSE At("yes", "https", cleanHost, httpsPort)

\* The mode and the place of a discovery result.
ModeAndPlace(result) ==
  LET u == parseUrl(result.url)
  IN [sslMode |-> result.sslMode, protocol |-> u.protocol,
      hostname |-> u.hostname, port |-> u.port]

\* C7: for every combination of probe outcomes discover returns the mode and
\* URL of the first matching step of the ordered algorithm (a probe the call
\* did not send may have any outcome).
C7_FirstMatchingStep ==
  (dcall.pc = "done" /\ ~dcall.hit /\ ~OnRelayDomain(trim(dcall.host))) =>
    \E strict \in (IF dcall.probes >= 2 THEN {dcall.httpsStrictProbe}
                   ELSE HttpsOutcomes) :
      \E self \in (IF dcall.probes >= 3 THEN {dcall.httpsSelfSignedProbe}
                   ELSE HttpsOutcomes) :
        ModeAndPlace(dcall.result) =
          FirstMatchingStep(trim(dcall.host), dcall.httpPort, dcall.httpsPort,
                            dcall.httpProbe, strict, self)

\* C8: discover on the relay domain or a subdomain of it returns sslMode
\* 'strict' at https://<host>/graphql (default https port) and sends no
\* probe.
C8_RelayHostDirect ==
  (dcall.pc # "idle" /\ OnRelayDomain(trim(dcall.host))) =>
    /\ dcall.pc = "done"
    /\ dcall.probes = 0
    /\ dcall.result.sslMode = "strict"
    /\ dcall.result.verifySsl
    /\ dcall.httpsPort = 443 =>
         dcall.result.url = <<"https", "://">> \o trim(dcall.host) \o <<"/graphql">>

C8_Witness ==
  /\ dcall.pc = "done"
  /\ dcall.host = HostRelaySub
  /\ ~dcall.hit
  /\ dcall.httpsPort = 443
  /\ dcall.result.url = <<"https", "://", "x", ".", "myunraid", ".", "net", "/graphql">>


\* ------------------------------------------------------------------ C9
\* The error kind and retryable flag the table of the specification gives
\* for a status.
StatusTable(status) ==
  CASE status \in {401, 403} -> ApiError("AUTHENTICATION_ERROR", FALSE)
    [] status = 404 -> ApiError("RESOURCE_NOT_FOUND", FALSE)
    [] status = 429 -> ApiError("RATE_LIMITED", TRUE)
    [] status \in {500, 502, 503} -> ApiError("SERVER_ERROR", TRUE)
    [] status = 504 -> ApiError("TIMEOUT_ERROR", TRUE)
    [] OTHER -> ApiError("UNKNOWN_ERROR", FALSE)

\* executeQuery ended on a response it did not follow: every followed
\* redirect was answered by a request of its own (a redirect whose target
\* cannot be requested leaves sent = redirectCount).
EndedOnResponse ==
  /\ ecall.pc = "done"
  /\ ecall.response.kind = "response"
  /\ ecall.sent = ecall.redirectCount + 1

\* C9: whenever executeQuery ends on a response that it did not follow and
\* whose status is outside 200..299, it throws the error kind and retryable
\* flag of the fixed table: 401/403 authentication (not retryable), 404 not
\* found (not retryable), 429 rate limited (retryable), 500/502/503 server
\* fault (retryable), 504 timeout (retryable), anything else unknown (not
\* retryable).
C9_StatusTable ==
  (EndedOnResponse /\ (ecall.response.status < 200 \/ ecall.response.status >= 300))
    => /\ ecall.outcome = "throw"
       /\ ecall.error = StatusTable(ecall.response.status)

\* A call that ended on a 504 and threw a retryable timeout error.
C9_Witness ==
  /\ EndedOnResponse
  /\ ecall.response.status = 504
  /\ ecall.outcome = "throw"
  /\ ecall.error = ApiError("TIMEOUT_ERROR", TRUE)

\* ------------------------------------------------------------------ C10
\* C10: executeQuery follows at most 5 redirect hops; a call that followed
\* exactly 5 redirects and then got a valid 2xx response returns, and a call
\* whose answer after 5 followed redirects is one more redirect throws a
\* connection error.
C10_RedirectCap ==
  /\ ecall.redirectCount <= MAX_REDIRECTS
  /\ ecall.sent <= MAX_REDIRECTS + 1
  /\ (/\ EndedOnResponse
      /\ ecall.redirectCount = MAX_REDIRECTS
      /\ ecall.response.status = 200
      /\ EnvelopeParses(ecall.response.body)
      /\ ecall.response.body.data = "valid"
      /\ ecall.response.body.list = << >>)
       => ecall.outcome = "return"
  /\ (/\ EndedOnResponse
      /\ ecall.redirectCount = MAX_REDIRECTS
      /\ redirectUrl(ecall.response) # NoLocation)
       => /\ ecall.outcome = "throw"
          /\ ecall.error.code = "CONNECTION_ERROR"

\* The part of C10 the code satisfies: never more than 5 followed hops, and
\* 5 hops followed by a valid 2xx response return the data.
C10_FiveHopsSucceed ==
  /\ ecall.redirectCount <= MAX_REDIRECTS
  /\ ecall.sent <= MAX_REDIRECTS + 1
  /\ (/\ EndedOnResponse
      /\ ecall.redirectCount = MAX_REDIRECTS
      /\ ecall.response.status = 200
      /\ EnvelopeParses(ecall.response.body)
      /\ ecall.response.body.data = "valid"
      /\ ecall.response.body.list = << >>)
       => ecall.outcome = "return"

\* A call that followed 5 redirects and returned.
C10_FiveHopsReached ==
  /\ ecall.pc = "done"
  /\ ecall.redirectCount = MAX_REDIRECTS
  /\ ecall.outcome = "return"


\* ------------------------------------------------------------------ C11
\* The nine kinds of the error taxonomy.
TaxonomyKinds ==
  {"CONNECTION_ERROR", "AUTHENTICATION_ERROR", "TIMEOUT_ERROR",
   "VALIDATION_ERROR", "RESOURCE_NOT_FOUND", "OPERATION_FAILED",
   "RATE_LIMITED", "SERVER_ERROR", "UNKNOWN_ERROR"}

\* The last answer of a finished call is a 2xx response.
EndedOn2xx ==
  /\ EndedOnResponse
  /\ ecall.response.status >= 200
  /\ ecall.response.status < 300

RetryableKind(code) ==
  code \in {"RATE_LIMITED", "SERVER_ERROR", "TIMEOUT_ERROR", "CONNECTION_ERROR"}

\* The finished call threw because of the error list of a 2xx envelope.
ThrewProtocolError ==
  /\ ecall.pc = "done"
  /\ ecall.outcome = "throw"
  /\ EndedOn2xx
  /\ ecall.response.body.form = "object"
  /\ ecall.response.body.data \in {"valid", "null"}
  /\ ecall.response.body.errors = "list"
  /\ ecall.response.body.list # << >>

\* C12: the retryable flag of every error thrown by executeQuery is fixed by
\* its kind, on every path: rate-limited, server-fault, timeout and
\* connection errors are retryable, the other kinds are not.
C12_RetryableByKind ==
  (ecall.pc = "done" /\ ecall.outcome = "throw") =>
    ecall.error.retryable = RetryableKind(ecall.error.code)

\* C12 as amended: the flag is fixed by the kind on every path but the
\* protocol-level error list, whose errors are never retryable whatever
\* their kind.
C12_RetryableByKindOrProtocol ==
  (ecall.pc = "done" /\ ecall.outcome = "throw") =>
    IF ThrewProtocolError THEN ~ecall.error.retryable
    ELSE ecall.error.retryable = RetryableKind(ecall.error.code)

\* A null-data envelope without errors threw a retryable server fault.
C12_Witness ==
  /\ ecall.pc = "done"
  /\ ecall.outcome = "throw"
  /\ EndedOn2xx
  /\ ~ThrewProtocolError
  /\ ecall.response.body.data = "null"
  /\ ecall.error = ApiError("SERVER_ERROR", TRUE)

\* ------------------------------------------------------------------ C13
\* The envelope carries no protocol-level error.
NoErrors(body) ==
  body.errors = "absent" \/ (body.errors = "list" /\ body.list = << >>)

\* C13: a finished call returned exactly when its final response is 2xx, a
\* JSON envelope without errors whose data validates against the caller's
\* shape; an error-free envelope whose data is present and does not match
\* the shape throws a validation error.
C13_ReturnsIffValid ==
  ecall.pc = "done" =>
    /\ ecall.outcome = "return" <=>
         /\ EndedOn2xx
         /\ ecall.response.body.form = "object"
         /\ NoErrors(ecall.response.body)
         /\ ecall.response.body.data = "valid"
    /\ (/\ EndedOn2xx
        /\ ecall.response.body.form = "object"
        /\ NoErrors(ecall.response.body)
        /\ ecall.response.body.data \in {"invalid", "missing"})
         => /\ ecall.outcome = "throw"
            /\ ecall.error = ApiError("VALIDATION_ERROR", FALSE)

\* An error-free 2xx envelope with data of the wrong shape was rejected.
C13_Witness ==
  /\ ecall.pc = "done"
  /\ EndedOn2xx
  /\ ecall.response.body = Body("object", "invalid", "absent", << >>)
  /\ ecall.error = ApiError("VALIDATION_ERROR", FALSE)

\* ------------------------------------------------------------------ C14
\* C14: a call whose config.host is empty or whitespace throws a validation
\* error that is not retryable, at once: no request is sent, no discovery
\* probe runs and the discovery cache is left as it was.
C14_Step ==
  (ecall' # ecall /\ ecall'.config.host \in {<< >>, <<" ">>}) =>
    /\ ecall'.pc = "done"
    /\ ecall'.outcome = "throw"
    /\ ecall'.error = ApiError("VALIDATION_ERROR", FALSE)
    /\ ecall'.sent = 0
    /\ dcall' = dcall
    /\ dcall.pc \in {"idle", "done"}
    /\ sslDiscoveryCache' = sslDiscoveryCache

C14_EmptyHostRejected == [][C14_Step]_vars

\* A whitespace host was rejected while the discovery cache held an entry.
C14_Witness ==
  /\ ecall.pc = "done"
  /\ ecall.config.host = <<" ">>
  /\ ecall.error = ApiError("VALIDATION_ERROR", FALSE)
  /\ ecall.sent = 0
  /\ DOMAIN sslDiscoveryCache # {}


\* ------------------------------------------------------------------ C15
\* C15: stop of a job that is not running, and stop or unregister of an id
\* that is not registered, release no timer handle and change the state of
\* no job; a second stop right after a stop changes nothing.
C15_Step ==
  /\ \A id \in Ids :
       (Stop(id) /\ (id \notin DOMAIN polls \/ ~polls[id].isRunning)) =>
         UNCHANGED pollVars
  /\ \A id \in Ids :
       (Unregister(id) /\ id \notin DOMAIN polls) => UNCHANGED pollVars
  /\ \A id \in Ids :
       Stop(id) => stop([polls |-> polls', timers |-> timers'], id)
                     = [polls |-> polls', timers |-> timers']

C15_StopIdempotent == [][C15_Step]_vars

\* A job that failed and was stopped, next to an id that is not registered.
C15_Witness ==
  \E id \in DOMAIN polls : \E other \in Ids \ DOMAIN polls :
    /\ ~polls[id].isRunning
    /\ polls[id].interval = Null
    /\ polls[id].consecutiveErrors > 0

\* ------------------------------------------------------------------ C16
\* The job has no live timer and is not running.
Quiet(p, t, id) ==
  /\ HandlesOf(id) \cap DOMAIN t = {}
  /\ id \in DOMAIN p => (~p[id].isRunning /\ p[id].interval = Null)

\* C16: after stop(id) or unregister(id), an invocation of the job's work
\* that was in flight still completes, and its completion (success or
\* failure) arms no timer and does not set isRunning: the job has no live
\* timer after it.  A stopped or unregistered job has no live timer at all.
C16_Step ==
  /\ \A id \in Ids :
       ((WorkSucceeds(id) \/ WorkFails(id)) /\ ~polls[id].isRunning) =>
         /\ Quiet(polls', timers', id)
         /\ inflight'[id] = inflight[id] - 1
  /\ \A s \in BagToSet(stale) :
       ((StaleWorkSucceeds(s) \/ StaleWorkFails(s)) /\ Quiet(polls, timers, s.id)) =>
         /\ Quiet(polls', timers', s.id)
         /\ \A s2 \in BagToSet(stale') : s2.id = s.id => ~s2.state.isRunning
  /\ \A id \in Ids :
       (Stop(id) \/ Unregister(id)) =>
         /\ Quiet(polls', timers', id)
         /\ \A s2 \in BagToSet(stale') : s2.id = id => ~s2.state.isRunning

C16_NoRearmAfterStop == [][C16_Step]_vars

\* A job unregistered with work in flight: one invocation is still pending
\* on the removed PollState, which records a failure, and no timer is live.
C16_Witness ==
  \E s \in BagToSet(stale) :
    /\ s.id \notin DOMAIN polls
    /\ Quiet(polls, timers, s.id)
    /\ s.pending = 1
    /\ s.state.consecutiveErrors = 1
    /\ s.state.lastError


\* ------------------------------------------------------------------ C17
\* Some operation on job a takes place in the step.
ActsOn(a) ==
  \/ \E cb \in WorkKinds, c \in {CfgRetry3} : Register(a, cb, c)
  \/ Start(a) \/ Stop(a) \/ Unregister(a) \/ ForceRun(a)
  \/ \E t \in HandlesOf(a) : Tick(t)
  \/ WorkSucceeds(a) \/ WorkFails(a)
  \/ \E s \in BagToSet(stale) : s.id = a /\ (StaleWorkSucceeds(s) \/ StaleWorkFails(s))

\* Everything the manager holds about job b.
JobView(p, c, cb, t, fl, stl, b) ==
  [registered |-> b \in DOMAIN p,
   state |-> IF b \in DOMAIN p THEN <<p[b], c[b], cb[b], fl[b]>> ELSE << >>,
   live |-> [h \in HandlesOf(b) \cap DOMAIN t |-> t[h]],
   held |-> {s \in BagToSet(stl) : s.id = b}]

\* C17: an operation on job a (register, start, stop, unregister, forceRun,
\* a tick of a's timer, a success or failure of a's work, a's stop on retry
\* exhaustion) leaves every other job b as it was: isRunning, timer handle,
\* live timers, currentInterval, consecutiveErrors and timestamps.
C17_Step ==
  \A a \in Ids : ActsOn(a) =>
    \A b \in Ids \ {a} :
      JobView(polls', configs', callbacks', timers', inflight', stale', b)
        = JobView(polls, configs, callbacks, timers, inflight, stale, b)

C17_JobsIndependent == [][C17_Step]_vars

\* One job was stopped by retry exhaustion while the other runs on its timer.
C17_Witness ==
  \E a \in DOMAIN polls, b \in DOMAIN polls :
    /\ a # b
    /\ polls[a].consecutiveErrors >= configs[a].maxRetries
    /\ ~polls[a].isRunning
    /\ polls[b].isRunning
    /\ polls[b].interval \in DOMAIN timers

\* ------------------------------------------------------------------ C18
\* The live timer handles of job id.
LiveTimers(id) == HandlesOf(id) \cap DOMAIN timers

\* C18: in every reachable state a job id has at most one live timer handle,
\* the one its PollState holds.
C18_OneLiveTimer ==
  \A id \in Ids :
    /\ Cardinality(LiveTimers(id)) <= 1
    /\ LiveTimers(id) # {} => (id \in DOMAIN polls /\ LiveTimers(id) = {polls[id].interval})

\* A running job whose timer was re-armed with a backoff interval.
C18_Witness ==
  \E id \in DOMAIN polls :
    /\ polls[id].isRunning
    /\ polls[id].consecutiveErrors > 0
    /\ LiveTimers(id) = {polls[id].interval}
    /\ timers[polls[id].interval] = polls[id].currentInterval
    /\ polls[id].currentInterval # configs[id].baseInterval

\* ------------------------------------------------------------------ C19
\* C19: a failure of a job's work does not leave executeCallback: the promise
\* that start, the timer callback and forceRun get from it resolves, and the
\* failure is recorded in the failure bookkeeping of the PollState the
\* invocation holds.
C19_Step ==
  /\ \A id \in Ids :
       WorkFails(id) =>
         /\ Complete(id, polls[id], configs[id], FALSE, TRUE).settled = "resolved"
         /\ polls'[id].lastError
         /\ polls'[id].consecutiveErrors = polls[id].consecutiveErrors + 1
  /\ \A s \in BagToSet(stale) :
       StaleWorkFails(s) =>
         /\ Complete(s.id, s.state, s.config, FALSE, FALSE).settled = "resolved"
         /\ s.pending > 1 =>
              \E s2 \in BagToSet(stale') :
                /\ s2.id = s.id
                /\ s2.state.lastError
                /\ s2.state.consecutiveErrors = s.state.consecutiveErrors + 1

C19_FailuresContained == [][C19_Step]_vars

\* A job that is not running and not exhausted has a recorded failure and no
\* work in flight.
C19_Witness ==
  \E id \in DOMAIN polls :
    /\ ~polls[id].isRunning
    /\ polls[id].lastError
    /\ polls[id].consecutiveErrors > 0
    /\ polls[id].consecutiveErrors < configs[id].maxRetries
    /\ inflight[id] = 0


\* ------------------------------------------------------------------ C20
\* The port a caller's setting stands for: the override, or the default
\* when the caller gave none.
PortOr(setting, default) == IF setting = Absent THEN default ELSE setting

\* C20: the discovery that executeQuery runs for a config without a
\* pre-resolved URL probes the caller's httpPort and httpsPort; 80 and 443
\* are used only when the caller gave no override.
C20_CustomPortsHonored ==
  (ecall.pc = "discover" /\ dcall.caller = "exec" /\ dcall.pc # "idle") =>
    /\ dcall.httpPort = PortOr(ecall.config.httpPort, 80)
    /\ dcall.httpsPort = PortOr(ecall.config.httpsPort, 443)


\* ------------------------------------------------------------------ C21
\* Callers that discover and clear for a host, for a host whose name begins
\* with the same text, and for the first host written with padding.
ClearHosts == {HostTower, HostPadded, HostTower2}

ClearHttpOutcomes ==
  {[status |-> 0, location |-> NoLocation, error |-> MsgRefused],
   [status |-> 200, location |-> NoLocation, error |-> NoError],
   [status |-> 302, location |-> LocSameHttps, error |-> NoError]}

ClearHttpsOutcomes ==
  {[status |-> 200, error |-> NoError],
   [status |-> 0, error |-> MsgSelfSigned],
   [status |-> 0, error |-> MsgRefused]}

NextClear ==
  \/ \E h \in ClearHosts, o \in PortOptions : DiscoverBegin(h, o)
  \/ \E p \in ClearHttpOutcomes : HttpProbeDone(p)
  \/ \E p \in ClearHttpsOutcomes : StrictProbeDone(p)
  \/ \E p \in ClearHttpsOutcomes : SelfSignedProbeDone(p)
  \/ \E h \in ClearHosts \cup {<< >>} : ClearCache(h)

SpecClear == Init /\ [][NextClear]_vars

\* The keys under which results for a host can be stored: the bare host, and
\* the host with any pair of ports.
KeysFor(cleanHost) ==
  {cleanHost} \cup {CacheKey(cleanHost, p, q) : p \in Ports, q \in Ports}

\* The entries a clearSslDiscoveryCache(h) has to remove.
Doomed(h) ==
  IF h = << >> THEN DOMAIN sslDiscoveryCache
  ELSE DOMAIN sslDiscoveryCache \cap KeysFor(trim(h))

C21_Step ==
  /\ \A h \in ClearHosts \cup {<< >>} :
        ClearCache(h) =>
          /\ DOMAIN sslDiscoveryCache' = DOMAIN sslDiscoveryCache \ Doomed(h)
          /\ \A k \in DOMAIN sslDiscoveryCache' :
                sslDiscoveryCache'[k] = sslDiscoveryCache[k]
  /\ \A h \in ClearHosts, o \in PortOptions :
        (/\ DiscoverBegin(h, o)
         /\ CacheKey(trim(h), PortOr(o.httpPort, 80), PortOr(o.httpsPort, 443))
              \notin DOMAIN sslDiscoveryCache)
        => /\ ~dcall'.hit
           /\ dcall'.pc = "http"
           /\ dcall'.probes = 1

\* C21: clearSslDiscoveryCache(host) removes every entry of that host,
\* whatever its ports, and leaves the entries of every other host as they
\* were, also those of a host whose name begins with the given host's text;
\* without an argument it removes every entry.  A discoverSslMode that starts
\* while its entry is missing is not served from the cache and sends a probe.
C21_ClearRemovesHostOnly == [][C21_Step]_vars

\* The entry of "tower" was stored and then cleared, while an entry of
\* "tower2" and nothing of "tower" is left in the cache.
C21_Witness ==
  /\ dcall.cleared /\ dcall.pc = "done" /\ trim(dcall.host) = HostTower
  /\ dcall.result.sslMode = "no"
  /\ DOMAIN sslDiscoveryCache \cap KeysFor(HostTower) = {}
  /\ DOMAIN sslDiscoveryCache \cap KeysFor(HostTower2) # {}


\* ------------------------------------------------------------------ C22
\* The always-failing scenario with a timer that keeps firing while it is
\* armed and a work promise that always settles.
FairExhaust ==
  \A id \in Ids :
    /\ WF_vars(\E t \in HandlesOf(id) : Tick(t))
    /\ WF_vars(WorkFails(id))

SpecExhaustFair == InitExhaust /\ [][NextExhaust]_vars /\ FairExhaust

\* getState(id) shows a stopped job with no timer.
StoppedState(id) ==
  /\ ~polls[id].isRunning
  /\ polls[id].interval = Null
  /\ HandlesOf(id) \cap DOMAIN timers = {}

\* C22: a started job whose work fails on every invocation reaches the
\* stopped state (isRunning false, no live timer) and stays in it from then
\* on, given that its timer keeps firing, every invocation settles and
\* nobody starts it again.
C22_EventuallyStoppedForGood ==
  \A id \in Ids : Started(id) ~> [] StoppedState(id)

\* The job was stopped by its failures and no work is pending.
C22_Witness ==
  \E id \in Ids :
    /\ StoppedState(id)
    /\ polls[id].lastError
    /\ polls[id].consecutiveErrors >= configs[id].maxRetries
    /\ inflight[id] = 0


\* ------------------------------------------------------------------ C23
\* C23 as a condition on one step: start(id) of a registered job that is
\* not running, and start(id) of an id that is not registered.
C23_Step ==
  \A id \in Ids :
    Start(id) =>
      /\ (Known(id) /\ ~polls[id].isRunning) =>
            /\ polls'[id].isRunning
            /\ inflight'[id] = inflight[id] + 1
            /\ Cardinality(HandlesOf(id) \cap DOMAIN timers') = 1
            /\ \A t \in HandlesOf(id) \cap DOMAIN timers' :
                  /\ timers'[t] = configs[id].baseInterval
                  /\ polls'[id].interval = t
      /\ ~Known(id) =>
            /\ timers' = timers
            /\ inflight' = inflight
            /\ polls' = polls

\* C23: start(id) on a registered job that is not running sets isRunning,
\* invokes the work once before it returns and leaves exactly one timer
\* armed for the job, at the base interval; start of an unknown id arms no
\* timer and invokes nothing.
C23_StartInvokesAndArms == [][C23_Step]_vars

\* A job started again after a failure had raised its interval: it runs with
\* one invocation pending and its timer at the base interval.
C23_Witness ==
  \E id \in DOMAIN polls :
    /\ polls[id].isRunning
    /\ polls[id].lastError /\ ~polls[id].lastSuccess
    /\ polls[id].consecutiveErrors = 0
    /\ inflight[id] = 1
    /\ HandlesOf(id) \cap DOMAIN timers = {polls[id].interval}
    /\ timers[polls[id].interval] = configs[id].baseInterval


\* ------------------------------------------------------------------ C24
\* The transport mode of the running executeQuery call.
TransportMode ==
  IF ecall.config.resolvedUrl # << >> THEN ecall.config.sslMode
  ELSE ecall.sslMode

\* C24: every encrypted request of an executeQuery call, the first one and
\* every redirect hop, verifies the server's certificate exactly when the
\* transport mode of the call is "strict": config.sslMode for a config with
\* a resolved URL, the discovered mode otherwise.
C24_VerifyIffStrict ==
  (ecall.pc = "request" /\ parseUrl(ecall.reqUrl).protocol = "https") =>
    (rejectUnauthorized(ecall.reqUrl, ecall.allowSelfSigned)
       <=> (TransportMode = "strict"))

\* An encrypted redirect hop of a call whose mode was discovered as "no", and
\* so is sent without verification.
C24_Witness ==
  /\ ecall.pc = "request" /\ ecall.redirectCount >= 1
  /\ parseUrl(ecall.reqUrl).protocol = "https"
  /\ ecall.config.resolvedUrl = << >>
  /\ ecall.sslMode = "no"
  /\ ~rejectUnauthorized(ecall.reqUrl, ecall.allowSelfSigned)


\* ------------------------------------------------------------------ C25
\* C25 as a condition on one step: the work of an invocation that holds the
\* PollState of a replaced or removed registration settles.
C25_Step ==
  \A s \in BagToSet(stale) :
    (StaleWorkSucceeds(s) \/ StaleWorkFails(s)) =>
      /\ polls' = polls
      /\ timers' = timers

\* C25: an invocation still in flight for a registration that was replaced
\* (or removed and registered again) leaves the new registration alone: its
\* success or failure, the failure that reaches the old retry limit
\* included, changes neither isRunning, the timer, currentInterval nor
\* consecutiveErrors of the job now registered under the id.
C25_StaleLeavesNewJobAlone == [][C25_Step]_vars


\* ------------------------------------------------------------------ C26
\* C26: a call whose final response is 2xx with a JSON envelope that carries
\* a non-empty errors list throws the error classified from the first entry,
\* not retryable, whether the data field is null, matches the caller's
\* shape or is non-null and does not match it.
C26_ErrorsBeforePayload ==
  (/\ ecall.pc = "done"
   /\ EndedOn2xx
   /\ ecall.response.body.form = "object"
   /\ ecall.response.body.errors = "list"
   /\ ecall.response.body.list # << >>
   /\ ecall.response.body.data \in {"null", "valid", "invalid"})
  => /\ ecall.outcome = "throw"
     /\ ecall.error = ApiError(mapGraphQLErrorCode(ecall.response.body.list[1]), FALSE)


\* ------------------------------------------------------------------ C27
\* The kinds the code table assigns.
CodeTable ==
  [UNAUTHENTICATED |-> "AUTHENTICATION_ERROR", FORBIDDEN |-> "AUTHENTICATION_ERROR",
   NOT_FOUND |-> "RESOURCE_NOT_FOUND", INTERNAL_SERVER_ERROR |-> "SERVER_ERROR",
   BAD_USER_INPUT |-> "VALIDATION_ERROR"]

\* Whether the lower-cased message has one of the words among its tokens.
Mentions(error, words) ==
  \E i \in 1 .. Len(error.message) : LowerTok(error.message[i]) \in words

\* The kind of the amended C27 for the first entry of the error list.
ProtocolKind(error) ==
  IF error.code \in DOMAIN CodeTable THEN CodeTable[error.code]
  ELSE IF Mentions(error, {"not found"}) THEN "RESOURCE_NOT_FOUND"
  ELSE IF Mentions(error, {"unauthorized", "authentication"})
  THEN "AUTHENTICATION_ERROR"
  ELSE IF Mentions(error, {"timeout"}) THEN "TIMEOUT_ERROR"
  ELSE "OPERATION_FAILED"

\* C27: the kind of a protocol-level error is fixed by the first entry of
\* the error list: a recognised code decides; otherwise the kind is
\* Authentication, NotFound, ServerFault or Validation when the message
\* matches, and OperationFailed in every other case; the error is never
\* retryable.
C27_FourCategories ==
  ThrewProtocolError =>
    LET first == ecall.response.body.list[1]
    IN /\ ~ecall.error.retryable
       /\ first.code \in DOMAIN CodeTable => ecall.error.code = CodeTable[first.code]
       /\ ecall.error.code \in
            {"AUTHENTICATION_ERROR", "RESOURCE_NOT_FOUND", "SERVER_ERROR",
             "VALIDATION_ERROR", "OPERATION_FAILED"}

\* C27 as amended: a recognised code decides; without one the message is
\* searched for "not found" (NotFound), "unauthorized" or "authentication"
\* (Authentication) and "timeout" (Timeout), in this order; every other
\* case is OperationFailed; the error is never retryable.
C27_CodeThenMessage ==
  ThrewProtocolError =>
    ecall.error = ApiError(ProtocolKind(ecall.response.body.list[1]), FALSE)

\* The first entry had no code and a message that speaks of a timeout.
C27_Witness ==
  /\ ThrewProtocolError
  /\ ecall.response.body.list[1] = ErrTimeout
  /\ ecall.error = ApiError("TIMEOUT_ERROR", FALSE)


\* ------------------------------------------------------------------ C28
\* C28: a running job has a live timer whose period is the job's
\* currentInterval: the base interval after start and after a success, the
\* backoff interval after a failure below the retry limit, also when the
\* invocation came from forceRun.
C28_TimerPeriodIsCurrentInterval ==
  \A id \in DOMAIN polls :
    polls[id].isRunning =>
      /\ polls[id].interval \in DOMAIN timers
      /\ timers[polls[id].interval] = polls[id].currentInterval

\* A running job whose work succeeded after a failure: its timer is back at
\* the base interval.
C28_Witness ==
  \E id \in DOMAIN polls :
    /\ polls[id].isRunning
    /\ polls[id].lastError /\ polls[id].lastSuccess
    /\ polls[id].consecutiveErrors = 0
    /\ polls[id].interval \in DOMAIN timers
    /\ timers[polls[id].interval] = configs[id].baseInterval


\* ------------------------------------------------------------------ C29
\* The job is stopped with its retries used up.
StoppedByExhaustion(id) ==
  /\ Known(id)
  /\ ~polls[id].isRunning
  /\ polls[id].consecutiveErrors >= configs[id].maxRetries

\* C29 as a condition on one step taken while the job is stopped with its
\* retries used up.
C29_Step ==
  \A id \in Ids :
    StoppedByExhaustion(id) =>
      /\ HandlesOf(id) \cap DOMAIN timers = {}
      /\ (id \in DOMAIN inflight' /\ inflight'[id] > inflight[id]) =>
            (Start(id) \/ ForceRun(id))
      /\ Start(id) =>
            /\ polls'[id].isRunning
            /\ polls'[id].consecutiveErrors = 0
            /\ polls'[id].currentInterval = configs[id].baseInterval
            /\ HandlesOf(id) \cap DOMAIN timers' = {polls'[id].interval}

\* C29: while a job is stopped by retry exhaustion no timer of it is armed,
\* so its work is invoked again only by a call of the owner (start or
\* forceRun), never by the scheduler; start then puts it back to running
\* with consecutiveErrors = 0 and currentInterval = baseInterval.
C29_NoWorkUntilRestart == [][C29_Step]_vars

\* The job used up its retries and is at rest: stopped, nothing pending, no
\* timer.
C29_Witness ==
  \E id \in Ids :
    /\ StoppedByExhaustion(id)
    /\ polls[id].consecutiveErrors = configs[id].maxRetries
    /\ polls[id].interval = Null
    /\ inflight[id] = 0
    /\ stale = EmptyBag


\* ------------------------------------------------------------------ C30
\* C30: consecutiveErrors of every registered job is at most its maxRetries
\* in every reachable state, whatever start, stop, forceRun, timer ticks and
\* failures led to it.
C30_ErrorsWithinRetries ==
  \A id \in DOMAIN polls :
    polls[id].consecutiveErrors <= configs[id].maxRetries


\* ------------------------------------------------------------------ C31
\* C31: between operations a job has a live timer handle exactly when it is
\* running, the handle is the one its PollState holds, and no handle is live
\* for an id without a job or for a PollState that was replaced or removed.
C31_TimerIffRunning ==
  /\ \A id \in Ids :
        IF id \in DOMAIN polls /\ polls[id].isRunning
        THEN HandlesOf(id) \cap DOMAIN timers = {polls[id].interval}
        ELSE HandlesOf(id) \cap DOMAIN timers = {}
  /\ \A id \in DOMAIN polls : ~polls[id].isRunning => polls[id].interval = Null
  /\ \A s \in BagToSet(stale) : s.state.interval \notin DOMAIN timers

\* A job registered again and started while an invocation of the replaced
\* registration is still pending: the only live handle is the new one.
C31_Witness ==
  \E s \in BagToSet(stale) :
    /\ s.id \in DOMAIN polls
    /\ polls[s.id].isRunning
    /\ HandlesOf(s.id) \cap DOMAIN timers = {polls[s.id].interval}
    /\ ~s.state.isRunning


\* ------------------------------------------------------------------ C32
\* Invocations of the work of id that have not settled, whichever PollState
\* they hold.
Unsettled(fl, stl, id) ==
  LET held == {s \in BagToSet(stl) : s.id = id}
      RECURSIVE Sum(_)
      Sum(S) == IF S = {} THEN 0
                ELSE LET x == CHOOSE y \in S : TRUE
                     IN x.pending * CopiesIn(x, stl) + Sum(S \ {x})
  IN (IF id \in DOMAIN fl THEN fl[id] ELSE 0) + Sum(held)

\* C32 as a condition on one step: register(id, callback, config).
C32_Step ==
  \A id \in Ids, cb \in WorkKinds,
     c \in {CfgTestDefault, CfgBackoff, CfgRetry3, CfgSystem, CfgStorage} :
    Register(id, cb, c) =>
      /\ polls'[id] = [interval |-> Null, currentInterval |-> c.baseInterval,
                       consecutiveErrors |-> 0, isRunning |-> FALSE,
                       lastSuccess |-> FALSE, lastError |-> FALSE]
      /\ HandlesOf(id) \cap DOMAIN timers' = {}
      /\ Unsettled(inflight', stale', id) = Unsettled(inflight, stale, id)

\* C32: register(id, ...) leaves the id with a job that is not running, has
\* no timer armed (the timer of a job it replaces is cleared),
\* consecutiveErrors = 0, currentInterval = the new baseInterval and no
\* timestamps, and it invokes no work.
C32_RegisterResets == [][C32_Step]_vars

\* A fresh registration under an id whose replaced registration, made with
\* another configuration, still has an invocation pending.
C32_Witness ==
  \E s \in BagToSet(stale) :
    /\ s.id \in DOMAIN polls
    /\ s.config # configs[s.id]
    /\ s.state.lastError
    /\ polls[s.id] = NewPollState(configs[s.id])
    /\ HandlesOf(s.id) \cap DOMAIN timers = {}


\* ------------------------------------------------------------------ C33
\* C33 as a condition on one step: start(id) of a job that is running.
C33_Step ==
  \A id \in Ids :
    (Start(id) /\ Known(id) /\ polls[id].isRunning) =>
      /\ inflight' = inflight
      /\ timers' = timers
      /\ polls' = polls
      /\ stale' = stale

\* C33: start(id) on a running job does nothing: the work is not invoked,
\* no timer is armed or re-armed, consecutiveErrors and currentInterval stay
\* as they are.
C33_StartWhileRunningNoOp == [][C33_Step]_vars

\* A running job at rest after a failure, on which a second start would
\* show: its error count is positive and its timer runs at a backoff
\* interval.
C33_Witness ==
  \E id \in DOMAIN polls :
    /\ polls[id].isRunning
    /\ inflight[id] = 0
    /\ polls[id].consecutiveErrors > 0
    /\ polls[id].currentInterval # configs[id].baseInterval
    /\ timers[polls[id].interval] = polls[id].currentInterval


\* ------------------------------------------------------------------ C34
\* C34 as a condition on one step: forceRun(id), and the completion of an
\* invocation of a job that is not running.
C34_Step ==
  \A id \in Ids :
    /\ (ForceRun(id) /\ ~Known(id)) =>
          (inflight' = inflight /\ polls' = polls /\ timers' = timers)
    /\ (ForceRun(id) /\ Known(id) /\ ~polls[id].isRunning) =>
          /\ inflight'[id] = inflight[id] + 1
          /\ polls' = polls
          /\ timers' = timers
    /\ (Known(id) /\ ~polls[id].isRunning /\ WorkSucceeds(id)) =>
          /\ polls'[id] = [polls[id] EXCEPT
                             !.consecutiveErrors = 0,
                             !.currentInterval = configs[id].baseInterval,
                             !.lastSuccess = TRUE]
          /\ timers' = timers
          /\ inflight'[id] = inflight[id] - 1
    /\ (Known(id) /\ ~polls[id].isRunning /\ WorkFails(id)) =>
          /\ polls'[id] = [polls[id] EXCEPT
                             !.consecutiveErrors = @ + 1,
                             !.currentInterval =
                                BackoffInterval(configs[id], polls[id].consecutiveErrors + 1),
                             !.lastError = TRUE]
          /\ timers' = timers
          /\ inflight'[id] = inflight[id] - 1

\* C34: forceRun(id) on a registered job that is not running invokes the
\* work once; when the work settles the bookkeeping of a timer tick is
\* applied (success: error count 0, base interval, lastSuccess; failure:
\* error count + 1, backoff interval, lastError) while no timer is armed and
\* the job stays not running; forceRun of an unknown id invokes nothing.
C34_ForceRunOutsideCadence == [][C34_Step]_vars

\* A job that is not running, with an invocation pending, a recorded success
\* and no timer.
C34_Witness ==
  \E id \in DOMAIN polls :
    /\ ~polls[id].isRunning
    /\ inflight[id] = 1
    /\ polls[id].lastSuccess /\ ~polls[id].lastError
    /\ polls[id].interval = Null
    /\ HandlesOf(id) \cap DOMAIN timers = {}


\* ------------------------------------------------------------------ C35
\* executeQuery with a resolved URL against servers that may answer at once,
\* fail, or send the response head and then stall; an armed timeout fires.
TimedConfigs == {c \in ClientConfigs : c.resolvedUrl # << >>}

NextTimed ==
  \/ \E c \in TimedConfigs : ExecBegin(c)
  \/ \E r \in ServerAnswers : Answer(r)
  \/ \E st \in {200, 302, 500} : ResponseStalls(st)
  \/ \E r \in ServerAnswers : BodyEnds(r)
  \/ RequestTimeout

SpecTimed == Init /\ [][NextTimed]_vars /\ WF_vars(RequestTimeout)

\* C35: every executeQuery call returns or throws in the end, whatever the
\* server does: as long as a round trip has not yielded a complete response
\* its timeout is armed, so that the round trip is aborted once timeoutMs
\* has elapsed.
C35_TimeoutGuardsRoundTrip ==
  (ecall.pc \in {"request", "body"}) => ecall.timeoutId


\* ------------------------------------------------------------------ C36
\* The plaintext probe yielded a usable redirect or a status >= 200.
PlainMatched(probe) ==
  LET target == parseUrl(probe.location)
  IN \/ /\ IsRedirect(probe) /\ target.ok
        /\ (OnRelayDomain(target.hostname) \/ target.protocol = "https")
     \/ probe.status >= 200

\* The probes a call has sent at each point of the algorithm, when the
\* unverified probe follows a verified probe that failed with one of `errs`.
ProbeOrder(errs) ==
  (dcall.pc # "idle" /\ ~dcall.hit /\ ~OnRelayDomain(trim(dcall.host))) =>
    LET http == dcall.httpProbe
        strict == dcall.httpsStrictProbe
    IN /\ dcall.probes \in 1 .. 3
       /\ dcall.pc = "http" => dcall.probes = 1
       /\ dcall.pc = "strict" => (dcall.probes = 2 /\ ~PlainMatched(http))
       /\ dcall.pc = "self" =>
            /\ dcall.probes = 3 /\ ~PlainMatched(http)
            /\ strict.status < 200 /\ strict.error \in errs
       /\ dcall.pc = "done" =>
            dcall.probes =
              (IF PlainMatched(http) THEN 1
               ELSE IF strict.status >= 200 THEN 2
               ELSE IF strict.error \in errs THEN 3
               ELSE 2)

\* C36: a discover call sends the plaintext probe first, the verified
\* encrypted probe only if the plaintext probe yielded neither a usable
\* redirect nor a status >= 200, and the unverified encrypted probe only if
\* the verified probe failed with a certificate-trust error; at most three
\* probes, none after a step has matched.
C36_LazyProbes == ProbeOrder({MsgSelfSigned, MsgCertExpired})

\* C36 as amended: the unverified probe follows every failure of the
\* verified probe whose message is SSL- or certificate-related, a failure of
\* the TLS protocol that has nothing to do with trust included.
C36_LazyProbesSslRelated ==
  ProbeOrder({MsgSelfSigned, MsgCertExpired, MsgSslProtocol})

\* A call that sent all three probes after the verified probe failed in the
\* TLS protocol.
C36_Witness ==
  /\ dcall.pc = "done" /\ dcall.probes = 3
  /\ dcall.httpsStrictProbe.error = MsgSslProtocol


\* ------------------------------------------------------------------ C37
\* C37 as a condition on one step: a discover call returns after the whole
\* cache was cleared while its probes were under way.
C37_Step ==
  (/\ dcall.pc \in {"http", "strict", "self"}
   /\ dcall.cleared
   /\ dcall'.pc = "done")
  => sslDiscoveryCache' = sslDiscoveryCache

\* C37: a discover call that was in flight when clearSslDiscoveryCache()
\* ran does not put its result into the cache, so that no later call is
\* answered with a result of probes started before the invalidation.
C37_NoStaleReinsert == [][C37_Step]_vars


\* ------------------------------------------------------------------ C38
\* The step ends a discover call with the default fallback: the verified
\* probe failed, and the unverified probe failed or was not sent.
FallbackStep ==
  /\ dcall'.pc = "done"
  /\ \/ dcall.pc = "strict" /\ dcall'.httpsStrictProbe.status < 200
     \/ dcall.pc = "self" /\ dcall'.httpsSelfSignedProbe.status < 200

\* The cache keys that stand for a (host, httpPort, httpsPort) tuple.
TupleKeys ==
  {CacheKey(trim(h), p, q) : h \in DiscoverHosts \cup ClearHosts,
                             p \in Ports, q \in Ports}

\* C38 as a condition on one step: the fallback is stored under the key of
\* the call; an entry stays as it is unless the cache is cleared; a call
\* that finds the entry of its tuple returns it and sends no probe.
C38_Step ==
  /\ FallbackStep =>
        LET key == CacheKey(trim(dcall.host), dcall.httpPort, dcall.httpsPort)
        IN /\ dcall'.result.sslMode = "yes" /\ ~dcall'.result.verifySsl
           /\ key \in DOMAIN sslDiscoveryCache'
           /\ sslDiscoveryCache'[key] = dcall'.result
  /\ ~(\E h \in DiscoverHosts \cup ClearHosts \cup {<< >>} : ClearCache(h)) =>
        \A k \in DOMAIN sslDiscoveryCache \cap TupleKeys :
          k \in DOMAIN sslDiscoveryCache' /\ sslDiscoveryCache'[k] = sslDiscoveryCache[k]
  /\ \A h \in DiscoverHosts \cup ClearHosts, o \in PortOptions :
        LET key == CacheKey(trim(h), PortOr(o.httpPort, 80), PortOr(o.httpsPort, 443))
        IN (DiscoverBegin(h, o) /\ key \in DOMAIN sslDiscoveryCache) =>
             /\ dcall'.pc = "done" /\ dcall'.hit /\ dcall'.probes = 0
             /\ dcall'.result = sslDiscoveryCache[key]

\* C38: the fallback returned when every probe failed is cached under the
\* (host, httpPort, httpsPort) tuple of the call; every later discover for
\* the tuple returns it without probing until clearSslDiscoveryCache is
\* called.
C38_FallbackCached == [][C38_Step]_vars

\* A call that sent three probes, the unverified one in vain, and whose
\* fallback is in the cache.
C38_Witness ==
  /\ dcall.pc = "done" /\ dcall.probes = 3
  /\ dcall.httpsSelfSignedProbe.status = 0
  /\ dcall.httpsSelfSignedProbe.error = MsgRefused
  /\ LET key == CacheKey(trim(dcall.host), dcall.httpPort, dcall.httpsPort)
     IN key \in DOMAIN sslDiscoveryCache /\ sslDiscoveryCache[key] = dcall.result


\* ------------------------------------------------------------------ C39
\* makeHttpRequest: the module that carries the request, `useHttps ? https :
\* http`; every URL whose scheme is not https goes over plain http.
protocolModule(url) ==
  IF parseUrl(url).protocol = "https" THEN "https" ELSE "http"

\* makeHttpRequest: the options of every request hold the header
\* 'x-api-key': apiKey, whatever the URL; the header is on the wire while the
\* request awaits its answer.
SendsApiKey(call) == call.pc \in {"request", "body"}

\* C39: a request of an executeQuery call in "strict" mode that carries the
\* x-api-key header, the first request or a redirect hop, never goes over
\* plain http.
C39_NoCredentialOverHttp ==
  (SendsApiKey(ecall) /\ TransportMode = "strict") =>
    protocolModule(ecall.reqUrl) = "https"

====
